---- MODULE Spec2Model ----
(***************************************************************************)
(* State-machine model of the shsh python agent: the LLM resilience layer  *)
(* (RateLimiter, CircuitBreaker, LLMClient.generate), the context          *)
(* compactor and the guardian/planner decision pipeline.                   *)
(*                                                                         *)
(* Time is the value of time.time(), read as an integer number of ticks    *)
(* that never decreases.  Every async with self._lock body holds no      *)
(* await, so each locked section is one atomic step; the steps of          *)
(* different in-flight calls interleave at the awaits between them.        *)
(***************************************************************************)
EXTENDS Integers, Sequences, FiniteSets, Bags, TLC

\* ------------------------------------------------------------------ bounds
MaxInFlight == 2       \* generate calls that can be in flight together
MaxTime == 3           \* last clock tick
MaxThreshold == 2      \* largest circuit_breaker_threshold tried
MaxTimeout == 2        \* largest circuit_breaker_timeout_seconds tried
MaxRps == 2            \* largest rate_limit_rps tried
MaxWindow == 2         \* largest rate_limit_window_seconds tried
MaxHistory == 33       \* longest conversation history handed to the compactor
MaxFold == 3           \* most messages handed to one _summarize_messages call alone
MaxEvents == 2         \* most events a stub chat app delivers to Chat

NoTime == 0 - 1        \* last_failure_time = None

VARIABLES
  settings,          \* Settings fields read by the modelled code
  now,               \* time.time()
  circuit_breaker,   \* LLMClient.circuit_breaker: failure_count, last_failure_time, is_open
  rate_limiter,      \* LLMClient.rate_limiter: requests
  model,             \* LLMClient.model: "bound" or "None"
  calls,             \* the bag of generate calls in flight, each as far as it has run
  result,            \* the generate call that returned last, as it returned
  obs,               \* observations of the breaker's history, read by the properties only
  rl_last,           \* what the last direct RateLimiter.allow call returned
  rl_obs,            \* observations of the limiter's history, read by the properties only
  ctx,               \* the frame of one _prepare_compacted_context call
  turn               \* one run of the terminal graph: the AgentState and where the run is

llm_vars == <<circuit_breaker, model, calls, result, obs>>
rl_vars == <<rl_last, rl_obs>>
vars == <<settings, now, rate_limiter, llm_vars, rl_vars, ctx, turn>>

\* Settings: the fields the modelled code reads, at their defaults. Ratios are in
\* hundredths. provider_counting stands for
\* (llm_provider in ("google", "gemini") and google_api_key), which is false by default.
Defaults ==
  [enable_safety |-> TRUE,
   enable_patterns |-> TRUE,
   enable_silence |-> TRUE,
   enable_llm |-> TRUE,
   pattern_confidence_threshold |-> 70,
   proactive_cooldown_seconds |-> 120,
   conversation_compaction_enabled |-> TRUE,
   conversation_soft_token_ratio |-> 70,
   conversation_recent_turns_keep |-> 3,
   conversation_min_recent_messages |-> 2,
   conversation_summary_max_chars |-> 2000,
   conversation_compaction_trigger_min_messages |-> 6,
   gemini_context_window_tokens |-> 1000000,
   provider_counting |-> FALSE,
   rate_limit_rps |-> 1,
   rate_limit_window_seconds |-> 1,
   circuit_breaker_threshold |-> 5,
   circuit_breaker_timeout_seconds |-> 30]

Max(a, b) == IF a >= b THEN a ELSE b
Min(a, b) == IF a <= b THEN a ELSE b

\* ---------------------------------------------------------- CircuitBreaker
\* CircuitBreaker.__init__
CircuitBreakerInit == [failure_count |-> 0, last_failure_time |-> NoTime, is_open |-> FALSE]

\* can_execute changed to close an open circuit on any admission check
can_execute_ignores_timeout(cb, t) ==
  IF ~cb.is_open THEN <<TRUE, cb>>
  ELSE <<TRUE, [cb EXCEPT !.is_open = FALSE, !.failure_count = 0]>>

\* can_execute changed to close the circuit after the timeout without zeroing
\* failure_count
can_execute_keeps_count(cb, t) ==
  IF ~cb.is_open THEN <<TRUE, cb>>
  ELSE IF (t - cb.last_failure_time) >= settings.circuit_breaker_timeout_seconds
       THEN <<TRUE, [cb EXCEPT !.is_open = FALSE]>>
       ELSE <<FALSE, cb>>

\* CircuitBreaker.can_execute: <<returned value, breaker after the call>>
can_execute(cb, t) ==
  IF ~cb.is_open THEN <<TRUE, cb>>
  ELSE IF (t - cb.last_failure_time) >= settings.circuit_breaker_timeout_seconds
       THEN <<TRUE, [cb EXCEPT !.is_open = FALSE, !.failure_count = 0]>>
       ELSE <<FALSE, cb>>

\* record_success changed to leave failure_count as it is
record_success_keeps_count(cb) ==
  [cb EXCEPT !.is_open = FALSE, !.last_failure_time = NoTime]

\* CircuitBreaker.record_success
record_success(cb) ==
  [cb EXCEPT !.failure_count = 0, !.is_open = FALSE, !.last_failure_time = NoTime]

\* record_failure changed to open only past the threshold (> for >=)
record_failure_late(cb, t) ==
  LET n == cb.failure_count + 1
  IN [cb EXCEPT !.failure_count = n,
                !.last_failure_time = t,
                !.is_open = IF n > settings.circuit_breaker_threshold THEN TRUE ELSE @]

\* CircuitBreaker.record_failure
record_failure(cb, t) ==
  LET n == cb.failure_count + 1
  IN [cb EXCEPT !.failure_count = n,
                !.last_failure_time = t,
                !.is_open = IF n >= settings.circuit_breaker_threshold THEN TRUE ELSE @]

\* ------------------------------------------------------------- RateLimiter
\* RateLimiter.__init__
RateLimiterInit == [requests |-> <<>>]

\* the list comprehension of RateLimiter.allow
Prune(requests, t) ==
  SelectSeq(requests, LAMBDA ts : ts > t - settings.rate_limit_window_seconds)

\* allow changed to admit while the window holds rps timestamps (<= for <)
allow_one_more(rl, t) ==
  LET kept == Prune(rl.requests, t)
  IN IF Len(kept) <= settings.rate_limit_rps
     THEN <<TRUE, 0, [requests |-> Append(kept, t)]>>
     ELSE <<FALSE,
            Max(kept[1] + settings.rate_limit_window_seconds - t, 0),
            [requests |-> kept]>>

\* allow changed to record the rejected call's timestamp too
allow_records_rejected(rl, t) ==
  LET kept == Prune(rl.requests, t)
  IN IF Len(kept) < settings.rate_limit_rps
     THEN <<TRUE, 0, [requests |-> Append(kept, t)]>>
     ELSE <<FALSE,
            Max(kept[1] + settings.rate_limit_window_seconds - t, 0),
            [requests |-> Append(kept, t)]>>

\* RateLimiter.allow: <<allowed, retry_after, limiter after the call>>
allow(rl, t) ==
  LET kept == Prune(rl.requests, t)
  IN IF Len(kept) < settings.rate_limit_rps
     THEN <<TRUE, 0, [requests |-> Append(kept, t)]>>
     ELSE <<FALSE,
            Max(kept[1] + settings.rate_limit_window_seconds - t, 0),
            [requests |-> kept]>>

\* ------------------------------------------------------- LLMClient.generate
\* A call that has not started.  allowed is generate's local of that name,
\* admitted the value can_execute returned to it, invoked whether it entered
\* model.ainvoke, successes / failures the breaker records it made.  The
\* after_* fields are read by the properties only: what the breaker's history
\* was when the call reached gate (c).
IdleCall ==
  [pc |-> "idle", enforce_rate_limit |-> TRUE, error |-> "none", response |-> "",
   outcome |-> "none", allowed |-> "unread", admitted |-> "unread",
   invoked |-> FALSE, successes |-> 0, failures |-> 0,
   after_streak |-> FALSE, after_run |-> FALSE]

\* _blocked_result(start, Exception(text)): empty response, error set
BlockedResult(call, text) == [call EXCEPT !.pc = "done", !.response = "", !.error = text]

\* Observations of the breaker's history (read by the properties only):
\* streak = failures recorded since the last recorded success,
\* since_reset = failures recorded since the last success or time-heal reset
\* (both stop counting at StreakCap, which no failure_count exceeds),
\* cleared = the largest failure_count a record_success has set back to 0,
\* closed_by = the step that last took the breaker from open to closed.
StreakCap == MaxThreshold + MaxInFlight
ObsInit == [streak |-> 0, since_reset |-> 0, cleared |-> 0, closed_by |-> "none"]
ObsRecord(o, outcome, before, after) ==
  IF outcome = "ok"
  THEN [o EXCEPT !.streak = 0, !.since_reset = 0,
                 !.cleared = Max(@, Min(before.failure_count, StreakCap)),
                 !.closed_by = IF before.is_open /\ ~after.is_open
                               THEN "record_success" ELSE @]
  ELSE [o EXCEPT !.streak = Min(@ + 1, StreakCap), !.since_reset = Min(@ + 1, StreakCap)]
ObsAdmission(o, before, after, t) ==
  IF before.is_open /\ ~after.is_open
  THEN [o EXCEPT !.since_reset = 0,
                 !.closed_by =
                   IF t - before.last_failure_time >= settings.circuit_breaker_timeout_seconds
                   THEN "can_execute after the timeout"
                   ELSE "can_execute before the timeout"]
  ELSE o

\* fewer than timeout_seconds have elapsed since the last failure
WithinTimeout(cb, t) ==
  /\ cb.last_failure_time # NoTime
  /\ t - cb.last_failure_time < settings.circuit_breaker_timeout_seconds

One(call) == SetToBag({call})

\* a call runs one step further: when it returns it leaves the bag of calls in
\* flight and result holds what it returned
Step(old, new) ==
  /\ calls' = IF new.pc \in {"done", "raised"} THEN calls (-) One(old)
              ELSE (calls (-) One(old)) (+) One(new)
  /\ result' = IF new.pc \in {"done", "raised"} THEN new ELSE result

\* gate (a) of generate, lines 123-135: the call after
\* if enforce_rate_limit: allowed, retry_after = await self.rate_limiter.allow(),
\* given what allow returned
AfterRateLimit(call, r) ==
  IF ~call.enforce_rate_limit THEN [call EXCEPT !.pc = "model", !.allowed = "skipped"]
  ELSE IF r[1] THEN [call EXCEPT !.pc = "model", !.allowed = "yes"]
  ELSE [BlockedResult(call, "rate limited") EXCEPT !.allowed = "no"]

\* GenRateLimit changed to put every call through the limiter, whatever
\* enforce_rate_limit says
GenRateLimit_always_limits(enforce) ==
  /\ BagCardinality(calls) < MaxInFlight
  /\ LET call == [IdleCall EXCEPT !.enforce_rate_limit = enforce]
         r == allow(rate_limiter, now)
         new == IF r[1] THEN [call EXCEPT !.pc = "model", !.allowed = "yes"]
                ELSE [BlockedResult(call, "rate limited") EXCEPT !.allowed = "no"]
     IN /\ rate_limiter' = r[3]
        /\ calls' = IF new.pc = "done" THEN calls ELSE calls (+) One(new)
        /\ result' = IF new.pc = "done" THEN new ELSE result
  /\ UNCHANGED <<settings, now, circuit_breaker, model, obs, rl_vars, ctx, turn>>

\* generate is entered and runs to its first gate: start = time.time(), then (a)
GenRateLimit(enforce) ==
  /\ BagCardinality(calls) < MaxInFlight
  /\ LET call == [IdleCall EXCEPT !.enforce_rate_limit = enforce]
         r == allow(rate_limiter, now)
         new == AfterRateLimit(call, r)
     IN /\ rate_limiter' = IF enforce THEN r[3] ELSE rate_limiter
        /\ calls' = IF new.pc = "done" THEN calls ELSE calls (+) One(new)
        /\ result' = IF new.pc = "done" THEN new ELSE result
  /\ UNCHANGED <<settings, now, circuit_breaker, model, obs, rl_vars, ctx, turn>>

\* the gates changed to consult the breaker before the model check
Gates_breaker_first(call, cb, t) ==
  LET r == can_execute(cb, t)
  IN IF ~r[1]
     THEN <<[BlockedResult(call, "circuit breaker open") EXCEPT !.admitted = "no"], r[2]>>
     ELSE IF model = "None"
          THEN <<[BlockedResult(call, "model not configured") EXCEPT !.admitted = "yes"], r[2]>>
          ELSE <<[call EXCEPT !.pc = "inflight", !.admitted = "yes", !.invoked = TRUE], r[2]>>

\* gates (b) and (c), lines 137-157: if self.model is None, then
\* if not await self.circuit_breaker.can_execute().  The result is
\* <<the call, the breaker>>; an admitted call goes on to build the messages and
\* enters (d) self.model.ainvoke, where it suspends.
Gates(call, cb, t) ==
  IF model = "None" THEN <<BlockedResult(call, "model not configured"), cb>>
  ELSE LET r == can_execute(cb, t)
       IN IF r[1]
          THEN <<[call EXCEPT !.pc = "inflight", !.admitted = "yes", !.invoked = TRUE], r[2]>>
          ELSE <<[BlockedResult(call, "circuit breaker open") EXCEPT !.admitted = "no"], r[2]>>

\* GenCircuit changed to take the call's timestamp out of the window again
\* when gate (b) or (c) rejects the call
GenCircuit_gives_back(call) ==
  /\ BagIn(call, calls)
  /\ call.pc = "model"
  /\ LET g == Gates(call, circuit_breaker, now)
         within == WithinTimeout(circuit_breaker, now)
         seen == [g[1] EXCEPT
                   !.after_streak = within /\ obs.streak >= settings.circuit_breaker_threshold,
                   !.after_run = within /\ obs.since_reset >= settings.circuit_breaker_threshold]
         n == Len(rate_limiter.requests)
     IN /\ Step(call, seen)
        /\ circuit_breaker' = g[2]
        /\ obs' = ObsAdmission(obs, circuit_breaker, g[2], now)
        /\ rate_limiter' = IF g[1].pc = "done" /\ call.allowed = "yes" /\ n > 0
                           THEN [requests |-> SubSeq(rate_limiter.requests, 1, n - 1)]
                           ELSE rate_limiter
  /\ UNCHANGED <<settings, now, model, rl_vars, ctx, turn>>

GenCircuit(call) ==
  /\ BagIn(call, calls)
  /\ call.pc = "model"
  /\ LET g == Gates(call, circuit_breaker, now)
         within == WithinTimeout(circuit_breaker, now)
         seen == [g[1] EXCEPT
                   !.after_streak = within /\ obs.streak >= settings.circuit_breaker_threshold,
                   !.after_run = within /\ obs.since_reset >= settings.circuit_breaker_threshold]
     IN /\ Step(call, seen)
        /\ circuit_breaker' = g[2]
        /\ obs' = ObsAdmission(obs, circuit_breaker, g[2], now)
  /\ UNCHANGED <<settings, now, rate_limiter, model, rl_vars, ctx, turn>>

\* generate changed to have no except clause: the provider's exception escapes
Completion_no_except(call, cb, outcome, t) ==
  IF outcome = "ok"
  THEN <<[call EXCEPT !.pc = "done", !.outcome = outcome, !.response = "text",
                      !.successes = @ + 1],
         record_success(cb)>>
  ELSE <<[call EXCEPT !.pc = "raised", !.outcome = outcome], cb>>

\* lines 178-220: the try body after ainvoke, and the except clause.  The result
\* is <<the call, the breaker>>.
Completion(call, cb, outcome, t) ==
  IF outcome = "ok"
  THEN <<[call EXCEPT !.pc = "done", !.outcome = outcome, !.response = "text",
                      !.successes = @ + 1],
         record_success(cb)>>
  ELSE <<[BlockedResult(call, "provider") EXCEPT !.outcome = outcome, !.failures = @ + 1],
         record_failure(cb, t)>>

\* model.ainvoke completes, returning a response or raising an Exception, and
\* generate runs on to its return
GenProviderReturns(call, outcome) ==
  /\ BagIn(call, calls)
  /\ call.pc = "inflight"
  /\ LET r == Completion(call, circuit_breaker, outcome, now)
     IN /\ Step(call, r[1])
        /\ circuit_breaker' = r[2]
        /\ obs' = ObsRecord(obs, outcome, circuit_breaker, r[2])
  /\ UNCHANGED <<settings, now, rate_limiter, model, rl_vars, ctx, turn>>

\* time.time() advances
Tick ==
  /\ now < MaxTime
  /\ now' = now + 1
  /\ UNCHANGED <<settings, rate_limiter, llm_vars, rl_vars, ctx, turn>>

\* ------------------------------------------------ RateLimiter, called directly
\* what allow returns, (allowed, retry_after), and the time of the call
NoAllow == [allowed |-> TRUE, retry_after |-> 0, at |-> 0]

\* Observations of the limiter's history (read by the properties only):
\* count = allow calls made so far (it stops counting past MaxRps),
\* first_rejected = whether one of the first rps calls was rejected,
\* admitted = the times of the last rps + 1 admissions, oldest first,
\* due = the time the first rejection since the last admission said to retry at,
\* rejections = rejected calls since the last admission (it stops counting at 2),
\* grew = whether a rejected call left a timestamp the window did not hold before,
\* late_rejected = whether a call made at or after due was rejected,
\* waited = whether the last admission came at or after due, after two rejections.
RlObsInit ==
  [count |-> 0, first_rejected |-> FALSE, admitted |-> <<>>, due |-> NoTime,
   rejections |-> 0, grew |-> FALSE, late_rejected |-> FALSE, waited |-> FALSE]

LastOf(seq, n) == IF Len(seq) <= n THEN seq ELSE SubSeq(seq, Len(seq) - n + 1, Len(seq))
Elems(seq) == {seq[i] : i \in 1..Len(seq)}

RlObserve(o, before, r, t) ==
  [count |-> Min(o.count + 1, MaxRps + 1),
   first_rejected |-> o.first_rejected \/ (~r[1] /\ o.count < settings.rate_limit_rps),
   admitted |-> IF r[1] THEN LastOf(Append(o.admitted, t), settings.rate_limit_rps + 1)
                ELSE o.admitted,
   due |-> IF r[1] THEN NoTime ELSE IF o.due = NoTime THEN t + r[2] ELSE o.due,
   rejections |-> IF r[1] THEN 0 ELSE Min(o.rejections + 1, 2),
   grew |-> o.grew \/ (~r[1] /\ ~(Elems(r[3].requests) \subseteq Elems(before.requests))),
   late_rejected |-> o.late_rejected \/ (~r[1] /\ o.due # NoTime /\ t >= o.due),
   waited |-> r[1] /\ o.due # NoTime /\ t >= o.due /\ o.rejections = 2]

\* one call of RateLimiter.allow, by any of the concurrent callers: the body runs
\* under self._lock and holds no await, so the calls take effect one at a time
AllowCall ==
  /\ LET r == allow(rate_limiter, now)
     IN /\ rate_limiter' = r[3]
        /\ rl_last' = [allowed |-> r[1], retry_after |-> r[2], at |-> now]
        /\ rl_obs' = RlObserve(rl_obs, rate_limiter, r, now)
  /\ UNCHANGED <<settings, now, llm_vars, ctx, turn>>

SettingsRL ==
  {[Defaults EXCEPT !.rate_limit_rps = r, !.rate_limit_window_seconds = w] :
     r \in 1..MaxRps, w \in 1..MaxWindow}

LLMIdle ==
  /\ circuit_breaker = CircuitBreakerInit
  /\ calls = EmptyBag
  /\ result = IdleCall
  /\ obs = ObsInit

RLIdle ==
  /\ rl_last = NoAllow
  /\ rl_obs = RlObsInit

CtxIdle == ctx = [pc |-> "idle"]

TurnIdle == turn = [pc |-> "idle"]

\* RateLimiter.__init__ over the settings
InitRL ==
  /\ settings \in SettingsRL
  /\ model = "bound"
  /\ now = 0
  /\ rate_limiter = RateLimiterInit
  /\ LLMIdle
  /\ RLIdle
  /\ CtxIdle
  /\ TurnIdle

SpecRL == InitRL /\ [][AllowCall \/ Tick]_vars

\* ------------------------------------------------------------ LLMClient runs
SettingsLLM ==
  {[Defaults EXCEPT !.circuit_breaker_threshold = th,
                    !.circuit_breaker_timeout_seconds = to,
                    !.rate_limit_window_seconds = MaxWindow] :
     th \in {1, MaxThreshold}, to \in {1, MaxTimeout}}

\* LLMClient.__init__ over the settings and the model create_llm_client binds
InitLLM ==
  /\ settings \in SettingsLLM
  /\ model \in {"bound", "None"}
  /\ now = 0
  /\ rate_limiter = RateLimiterInit
  /\ LLMIdle
  /\ RLIdle
  /\ CtxIdle
  /\ TurnIdle

SpecLLM ==
  InitLLM /\ [][\/ \E enforce \in BOOLEAN : GenRateLimit(enforce)
                \/ \E call \in BagToSet(calls) : GenCircuit(call)
                \/ \E call \in BagToSet(calls), outcome \in {"ok", "exc"} :
                     GenProviderReturns(call, outcome)
                \/ Tick]_vars

\* ------------------------------------ GraphBuilder._prepare_compacted_context
\* Texts are carried as their lengths in characters (a summary, a prompt, the
\* content of a message); a message is [id, type, content]. Messages reach the
\* conversation state only as HumanMessage / AIMessage that went through
\* ensure_message_id, so every message has an id and one of these two types.
TOKEN_ESTIMATION_RATIO == 4
MAX_COMPACT_BATCH == 30
SNIPPET_MAX_LENGTH == 180
SNIPPET_TRUNCATE_LENGTH == SNIPPET_MAX_LENGTH - 3
TOKEN_ESTIMATION_CHARS_PER_TOKEN == 4
TOKEN_ESTIMATION_BASE_OVERHEAD == 128
TOKEN_ESTIMATION_MIN_TOKENS == 1
\* len("\n\nConversation summary:\n")
SummaryHeaderChars == 24
\* len(LLMClient.build_system_prompt())
SystemPromptChars == 246

RECURSIVE SumContent(_)
SumContent(messages) ==
  IF messages = <<>> THEN 0 ELSE Head(messages).content + SumContent(Tail(messages))

to_history(messages) ==
  LET kept == SelectSeq(messages, LAMBDA m : m.type \in {"ai", "human"})
  IN [i \in 1..Len(kept) |->
        [role |-> IF kept[i].type = "ai" THEN "assistant" ELSE "user",
         content |-> kept[i].content]]

compose_system_prompt(system_prompt, summary) ==
  IF summary = 0 THEN system_prompt ELSE system_prompt + SummaryHeaderChars + summary

\* LLMClient.estimate_tokens over the messages build_messages makes of the context
estimate_tokens(system_prompt, user_prompt, history) ==
  LET total_chars == system_prompt + SumContent(history) + user_prompt
  IN Max(TOKEN_ESTIMATION_MIN_TOKENS,
         (total_chars \div TOKEN_ESTIMATION_CHARS_PER_TOKEN) + TOKEN_ESTIMATION_BASE_OVERHEAD)

keep_messages ==
  Max(settings.conversation_min_recent_messages, settings.conversation_recent_turns_keep * 2)

soft_limit ==
  (settings.gemini_context_window_tokens * settings.conversation_soft_token_ratio) \div 100

\* count_tokens_for_messages where a provider timeout is returned as a count of 0
count_tokens_timeout_is_zero(counting, system_prompt, user_prompt, history) ==
  LET estimated == <<estimate_tokens(system_prompt, user_prompt, history), "estimated">>
  IN IF ~settings.provider_counting THEN estimated
     ELSE IF counting.kind = "count" THEN <<counting.count, "gemini_count_tokens">>
     ELSE IF counting.kind = "timeout" THEN <<0, "gemini_count_tokens">>
     ELSE estimated

\* LLMClient.count_tokens_for_messages: the (count, mode) returned when the
\* awaited _count_tokens_gemini call, if it is made, ends as counting says: with
\* a count, with asyncio.TimeoutError or with another exception
count_tokens_given(counting, system_prompt, user_prompt, history) ==
  LET estimated == <<estimate_tokens(system_prompt, user_prompt, history), "estimated">>
  IN IF ~settings.provider_counting THEN estimated
     ELSE IF counting.kind = "count" THEN <<counting.count, "gemini_count_tokens">>
     ELSE IF counting.kind = "timeout" THEN estimated
     ELSE estimated

\* LLMClient.count_tokens_for_messages: every (count, mode) the call can return.
\* The provider may report any count; the ones around the soft limit are drawn.
count_tokens_for_messages(system_prompt, user_prompt, history) ==
  {count_tokens_given(counting, system_prompt, user_prompt, history) :
     counting \in [kind : {"count"}, count : {1, soft_limit, soft_limit + 1}]
                    \cup [kind : {"timeout", "raises"}, count : {0}]}

\* the length of one "- role: snippet" line of the local fold
FoldLine(message) ==
  (IF message.type = "ai" THEN 13 ELSE 8)
  + (IF message.content > SNIPPET_MAX_LENGTH THEN SNIPPET_TRUNCATE_LENGTH + 3
     ELSE message.content)

RECURSIVE SumLines(_)
SumLines(messages) ==
  IF messages = <<>> THEN 0 ELSE FoldLine(Head(messages)) + SumLines(Tail(messages))

\* merge_summary changed to return the fold without the cut to max_chars
merge_summary_uncapped(previous, old_messages) ==
  LET spoken == SelectSeq(old_messages, LAMBDA m : m.content > 0)
      additions == SumLines(spoken) + (Len(spoken) - 1)
  IN IF spoken = <<>> THEN previous
     ELSE IF previous > 0 THEN previous + 1 + additions ELSE additions

merge_summary(previous, old_messages) ==
  LET spoken == SelectSeq(old_messages, LAMBDA m : m.content > 0)
      additions == SumLines(spoken) + (Len(spoken) - 1)
      merged == IF spoken = <<>> THEN previous
                ELSE IF previous > 0 THEN previous + 1 + additions ELSE additions
  IN Min(merged, settings.conversation_summary_max_chars)

\* summarize_outcomes changed to keep the previous summary when the LLM is
\* disabled or its call fails, in place of the local fold
summarize_outcomes_no_fallback(previous_summary, old_messages) ==
  LET max_chars == settings.conversation_summary_max_chars
  IN IF old_messages = <<>> \/ SumContent(old_messages) = 0
     THEN {[summary |-> previous_summary, by |-> "kept", called |-> FALSE]}
     ELSE IF ~settings.enable_llm
     THEN {[summary |-> previous_summary, by |-> "fold", called |-> FALSE]}
     ELSE {[summary |-> previous_summary, by |-> "fold", called |-> TRUE]}
          \cup {[summary |-> Min(response, max_chars), by |-> "llm", called |-> TRUE] :
                  response \in {5, max_chars + 3}}

\* _summarize_messages: every summary the call can return, with the path that
\* made it ("kept": previous_summary returned as it is, "fold": the local
\* _merge_summary, "llm": the text of the generate call, cut to max_chars). The
\* generate call is taken by its result: an error or blank text, or a response.
summarize_outcomes(previous_summary, old_messages) ==
  LET transcript == SelectSeq(old_messages,
                              LAMBDA m : m.type \in {"human", "ai"} /\ m.content > 0)
      fallback_summary == merge_summary(previous_summary, old_messages)
      max_chars == settings.conversation_summary_max_chars
  IN IF old_messages = <<>> \/ transcript = <<>>
     THEN {[summary |-> previous_summary, by |-> "kept", called |-> FALSE]}
     ELSE IF ~settings.enable_llm
     THEN {[summary |-> fallback_summary, by |-> "fold", called |-> FALSE]}
     ELSE {[summary |-> fallback_summary, by |-> "fold", called |-> TRUE]}
          \cup {[summary |-> Min(response, max_chars), by |-> "llm", called |-> TRUE] :
                  response \in {5, max_chars + 3}}

summarize_messages(previous_summary, old_messages) ==
  {outcome.summary : outcome \in summarize_outcomes(previous_summary, old_messages)}

\* compact_count changed to cut one message fewer than the code does
compact_count_one_less(n) == Min(n - keep_messages - 1, MAX_COMPACT_BATCH)

\* compact_count changed to take the batch without leaving the kept messages
compact_count_whole_batch(n) == Min(n, MAX_COMPACT_BATCH)

compact_count(n) == Min(n - keep_messages, MAX_COMPACT_BATCH)

NoReturn == [system_prompt |-> 0, history |-> <<>>, remove_ops |-> <<>>,
             preflight_tokens |-> 0, compaction_applied |-> FALSE, token_count_mode |-> "none"]

\* below_trigger changed to let a history one short of the minimum go on to counting
below_trigger_off_by_one(n) == n < settings.conversation_compaction_trigger_min_messages - 1

\* len(history_messages) < min_messages
below_trigger(n) == n < settings.conversation_compaction_trigger_min_messages

\* the frame as the call starts
Called(state_summary, history_messages, system_prompt, user_prompt) ==
  [pc |-> "called",
   state_summary |-> state_summary,
   history_messages |-> history_messages,
   system_prompt |-> system_prompt,
   user_prompt |-> user_prompt,
   summary |-> state_summary,
   summary_by |-> "none",
   working_messages |-> <<>>,
   to_compact |-> <<>>,
   token_counts |-> 0,
   summarizations |-> 0,
   returned |-> NoReturn]

Return(frame, system_prompt, history, remove_ops, tokens, compacted, mode) ==
  [frame EXCEPT !.pc = "returned",
                !.returned = [system_prompt |-> system_prompt,
                              history |-> history,
                              remove_ops |-> remove_ops,
                              preflight_tokens |-> tokens,
                              compaction_applied |-> compacted,
                              token_count_mode |-> mode]]

\* entry up to the first await: the early return below the trigger minimum, or
\* the preflight count_tokens_for_messages call
PrepareEnter ==
  /\ ctx.pc = "called"
  /\ LET hm == ctx.history_messages
     IN IF below_trigger(Len(hm))
        THEN ctx' = Return(ctx, ctx.system_prompt, to_history(hm), <<>>,
                           SumContent(hm) \div TOKEN_ESTIMATION_RATIO, FALSE,
                           "estimated_skipped")
        ELSE ctx' = [ctx EXCEPT !.pc = "preflight",
                                !.working_messages = hm,
                                !.token_counts = @ + 1]
  /\ UNCHANGED <<settings, now, rate_limiter, llm_vars, rl_vars, turn>>

\* the preflight count returns: return as is, or cut the batch and call the summarizer
PreflightReturns ==
  /\ ctx.pc = "preflight"
  /\ LET composed_system == compose_system_prompt(ctx.system_prompt, ctx.summary)
         history == to_history(ctx.working_messages)
         n == Len(ctx.working_messages)
     IN \E counted \in count_tokens_for_messages(composed_system, ctx.user_prompt, history) :
          IF ~settings.conversation_compaction_enabled \/ counted[1] <= soft_limit
          THEN ctx' = Return(ctx, composed_system, history, <<>>, counted[1], FALSE, counted[2])
          ELSE IF n <= keep_messages
          THEN ctx' = Return(ctx, composed_system, history, <<>>, counted[1], FALSE, counted[2])
          ELSE ctx' = [ctx EXCEPT !.pc = "summarize",
                                  !.to_compact = SubSeq(ctx.working_messages, 1, compact_count(n)),
                                  !.working_messages =
                                     SubSeq(ctx.working_messages, compact_count(n) + 1, n),
                                  !.summarizations = @ + 1]
  /\ UNCHANGED <<settings, now, rate_limiter, llm_vars, rl_vars, turn>>

\* _summarize_messages returns: the summary is stored and the recount is called
SummarizeReturns ==
  /\ ctx.pc = "summarize"
  /\ \E outcome \in summarize_outcomes(ctx.summary, ctx.to_compact) :
       ctx' = [ctx EXCEPT !.pc = "recount",
                          !.summary = outcome.summary,
                          !.state_summary = outcome.summary,
                          !.summary_by = outcome.by,
                          !.token_counts = @ + 1]
  /\ UNCHANGED <<settings, now, rate_limiter, llm_vars, rl_vars, turn>>

\* RecountReturns changed to cut another batch while the recount is above the limit
RecountReturns_again ==
  /\ ctx.pc = "recount"
  /\ LET composed_system == compose_system_prompt(ctx.system_prompt, ctx.summary)
         history == to_history(ctx.working_messages)
         remove_ops == [i \in 1..Len(ctx.to_compact) |-> ctx.to_compact[i].id]
         n == Len(ctx.working_messages)
     IN \E counted \in count_tokens_for_messages(composed_system, ctx.user_prompt, history) :
          IF counted[1] > soft_limit /\ n > keep_messages
          THEN ctx' = [ctx EXCEPT !.pc = "summarize",
                                  !.to_compact = SubSeq(ctx.working_messages, 1, compact_count(n)),
                                  !.working_messages =
                                     SubSeq(ctx.working_messages, compact_count(n) + 1, n),
                                  !.summarizations = @ + 1]
          ELSE ctx' = Return(ctx, composed_system, history, remove_ops, counted[1], TRUE, counted[2])
  /\ UNCHANGED <<settings, now, rate_limiter, llm_vars, rl_vars, turn>>

\* the recount returns, and with it the call
RecountReturns ==
  /\ ctx.pc = "recount"
  /\ LET composed_system == compose_system_prompt(ctx.system_prompt, ctx.summary)
         history == to_history(ctx.working_messages)
         remove_ops == [i \in 1..Len(ctx.to_compact) |-> ctx.to_compact[i].id]
     IN \E counted \in count_tokens_for_messages(composed_system, ctx.user_prompt, history) :
          ctx' = Return(ctx, composed_system, history, remove_ops, counted[1], TRUE, counted[2])
  /\ UNCHANGED <<settings, now, rate_limiter, llm_vars, rl_vars, turn>>

\* a conversation of n messages, human and assistant in turn, each of chars characters
Conversation(n, chars) ==
  [i \in 1..n |-> [id |-> i, type |-> IF i % 2 = 1 THEN "human" ELSE "ai", content |-> chars]]

SettingsCompact ==
  {[Defaults EXCEPT !.conversation_min_recent_messages = min_recent,
                    !.conversation_recent_turns_keep = turns_keep,
                    !.conversation_compaction_trigger_min_messages = trigger,
                    !.conversation_compaction_enabled = enabled,
                    !.gemini_context_window_tokens = 200,
                    !.conversation_summary_max_chars = 30,
                    !.provider_counting = counting,
                    !.enable_llm = llm] :
     min_recent \in {0, 2}, turns_keep \in {0, 1, 3}, trigger \in {0, 6},
     enabled \in BOOLEAN, counting \in BOOLEAN, llm \in BOOLEAN}

InitCompact ==
  /\ settings \in SettingsCompact
  /\ model = "bound"
  /\ now = 0
  /\ rate_limiter = RateLimiterInit
  /\ LLMIdle
  /\ RLIdle
  /\ TurnIdle
  /\ \E n \in 0..MaxHistory, chars \in {0, 40}, state_summary \in {0, 10} :
       ctx = Called(state_summary, Conversation(n, chars), SystemPromptChars, 12)

NextCompact == PrepareEnter \/ PreflightReturns \/ SummarizeReturns \/ RecountReturns

SpecCompact == InitCompact /\ [][NextCompact]_vars

\* ------------------------------------------ _summarize_messages, call after call
\* The rolling summary under repeated summarization: each call is handed the
\* summary the call before it returned, starting from the empty summary.
Rolling(summary, by, compactions) ==
  [pc |-> "rolling", summary |-> summary, by |-> by, compactions |-> compactions]

SummarizeMessages ==
  /\ ctx.pc = "rolling"
  /\ \E k \in 0..MaxFold, chars \in {0, 4, 200} :
       \E outcome \in summarize_outcomes(ctx.summary, Conversation(k, chars)) :
         ctx' = Rolling(outcome.summary, outcome.by, Min(ctx.compactions + 1, 2))
  /\ UNCHANGED <<settings, now, rate_limiter, llm_vars, rl_vars, turn>>

SettingsSummary ==
  {[Defaults EXCEPT !.conversation_summary_max_chars = max_chars, !.enable_llm = llm] :
     max_chars \in {0, 20, 30, 400}, llm \in BOOLEAN}

InitSummary ==
  /\ settings \in SettingsSummary
  /\ model = "bound"
  /\ now = 0
  /\ rate_limiter = RateLimiterInit
  /\ LLMIdle
  /\ RLIdle
  /\ TurnIdle
  /\ ctx = Rolling(0, "none", 0)

SpecSummary == InitSummary /\ [][SummarizeMessages]_vars

\* ------------------------------------------------- SafetyChecker, PatternEngine
\* The rules in declaration order. A regular expression is carried by the
\* commands of the catalogue it matches (rule.pattern.search(command)); the
\* texts are written without their backquotes.
SafetyRules ==
  <<[tier |-> 1, message |-> "This would delete the entire filesystem.", log_category |-> ""],
    [tier |-> 1, message |-> "Recursive delete from root is blocked.", log_category |-> ""],
    [tier |-> 1, message |-> "Fork bomb detected.", log_category |-> ""],
    [tier |-> 1, message |-> "Filesystem format command is blocked.", log_category |-> ""],
    [tier |-> 1, message |-> "Direct disk writes are blocked.", log_category |-> ""],
    [tier |-> 1, message |-> "Redirecting output to block devices is blocked.", log_category |-> ""],
    [tier |-> 2, message |-> "dd can destroy data. Confirm intent.", log_category |-> ""],
    [tier |-> 2, message |-> "Recursive world-writable permissions are risky. Confirm.", log_category |-> ""],
    [tier |-> 2, message |-> "Recursive ownership change. Confirm intent.", log_category |-> ""],
    [tier |-> 2, message |-> "Recursive/force delete detected. Confirm intent.", log_category |-> ""],
    [tier |-> 2, message |-> "Force-killing processes can be disruptive. Confirm.", log_category |-> ""],
    [tier |-> 3, message |-> "", log_category |-> "privilege_escalation"],
    [tier |-> 3, message |-> "", log_category |-> "package_install"],
    [tier |-> 3, message |-> "", log_category |-> "service_management"],
    [tier |-> 3, message |-> "", log_category |-> "firewall_config"]>>

PatternDefinitions ==
  <<[name |-> "man_command", name_len |-> 11, response |-> "Manual pages are great for command details. Use / to search and q to quit.", priority |-> 100],
    [name |-> "help_flag", name_len |-> 9, response |-> "--help is the fastest way to inspect command usage.", priority |-> 100],
    [name |-> "cd_home", name_len |-> 7, response |-> "cd with no argument sends you to your home directory.", priority |-> 95],
    [name |-> "cd_up", name_len |-> 5, response |-> "cd .. moves to the parent directory.", priority |-> 95],
    [name |-> "pwd", name_len |-> 3, response |-> "pwd prints your current working directory.", priority |-> 95],
    [name |-> "ls_simple", name_len |-> 9, response |-> "Try ls -la to include hidden files and metadata.", priority |-> 90],
    [name |-> "ls_detailed", name_len |-> 11, response |-> "ls -la shows permission bits, ownership, and timestamps.", priority |-> 90],
    [name |-> "cat_file", name_len |-> 8, response |-> "cat prints a file in full; use less for long outputs.", priority |-> 85],
    [name |-> "mkdir", name_len |-> 5, response |-> "Use mkdir -p when parent directories may not exist.", priority |-> 85],
    [name |-> "touch", name_len |-> 5, response |-> "touch creates empty files or updates timestamps.", priority |-> 85],
    [name |-> "chmod", name_len |-> 5, response |-> "Permissions: read=4, write=2, execute=1; combine per user/group/other.", priority |-> 80]>>

Commands ==
  {"rm -rf /",
   "dd if=/dev/zero of=/dev/sda",
   "chmod -R 777 /srv",
   "kill -9 1",
   "sudo apt --help",
   "ls",
   "man ls --help",
   "cat /var/log/application/server/current.log",
   "make",
   "  ",
   "sudo tee /tmp/x > /dev/sda",
   "chmod --help"}

SafetyHits ==
  ("rm -rf /" :> {1, 10})
  @@ ("dd if=/dev/zero of=/dev/sda" :> {5, 7})
  @@ ("chmod -R 777 /srv" :> {8})
  @@ ("kill -9 1" :> {11})
  @@ ("sudo apt --help" :> {12})
  @@ ("ls" :> {})
  @@ ("man ls --help" :> {})
  @@ ("cat /var/log/application/server/current.log" :> {})
  @@ ("make" :> {})
  @@ ("  " :> {})
  @@ ("sudo tee /tmp/x > /dev/sda" :> {6, 12})
  @@ ("chmod --help" :> {})

PatternHits ==
  ("rm -rf /" :> {})
  @@ ("dd if=/dev/zero of=/dev/sda" :> {})
  @@ ("chmod -R 777 /srv" :> {"chmod"})
  @@ ("kill -9 1" :> {})
  @@ ("sudo apt --help" :> {"help_flag"})
  @@ ("ls" :> {"ls_simple"})
  @@ ("man ls --help" :> {"man_command", "help_flag"})
  @@ ("cat /var/log/application/server/current.log" :> {"cat_file"})
  @@ ("make" :> {})
  @@ ("  " :> {})
  @@ ("sudo tee /tmp/x > /dev/sda" :> {})
  @@ ("chmod --help" :> {"help_flag", "chmod"})

StrippedLen ==
  ("rm -rf /" :> 8)
  @@ ("dd if=/dev/zero of=/dev/sda" :> 27)
  @@ ("chmod -R 777 /srv" :> 17)
  @@ ("kill -9 1" :> 9)
  @@ ("sudo apt --help" :> 15)
  @@ ("ls" :> 2)
  @@ ("man ls --help" :> 13)
  @@ ("cat /var/log/application/server/current.log" :> 43)
  @@ ("make" :> 4)
  @@ ("  " :> 0)
  @@ ("sudo tee /tmp/x > /dev/sda" :> 26)
  @@ ("chmod --help" :> 12)

FirstWordSafe ==
  ("rm -rf /" :> FALSE)
  @@ ("dd if=/dev/zero of=/dev/sda" :> FALSE)
  @@ ("chmod -R 777 /srv" :> FALSE)
  @@ ("kill -9 1" :> FALSE)
  @@ ("sudo apt --help" :> FALSE)
  @@ ("ls" :> TRUE)
  @@ ("man ls --help" :> TRUE)
  @@ ("cat /var/log/application/server/current.log" :> TRUE)
  @@ ("make" :> FALSE)
  @@ ("  " :> FALSE)
  @@ ("sudo tee /tmp/x > /dev/sda" :> FALSE)
  @@ ("chmod --help" :> FALSE)

NoSafetyBlock == [tier |-> 0, message |-> "", log_category |-> ""]

\* SafetyChecker.check changed to keep the last matching rule
safety_check_last_match(command) ==
  LET hits == SafetyHits[command]
  IN IF hits = {} THEN NoSafetyBlock
     ELSE SafetyRules[CHOOSE i \in hits : \A j \in hits : i >= j]

\* SafetyChecker.check: the first rule, in list order, whose pattern matches
safety_check(command) ==
  LET hits == SafetyHits[command]
  IN IF hits = {} THEN NoSafetyBlock
     ELSE SafetyRules[CHOOSE i \in hits : \A j \in hits : i <= j]

\* patterns.sort(key=priority, reverse=True): a stable sort, so patterns of equal
\* priority stay in declaration order
RECURSIVE SortByPriority(_)
SortByPriority(defs) ==
  IF defs = <<>> THEN <<>>
  ELSE LET top == CHOOSE i \in 1..Len(defs) :
                    /\ \A j \in 1..Len(defs) : defs[j].priority <= defs[i].priority
                    /\ \A j \in 1..(i - 1) : defs[j].priority < defs[i].priority
       IN <<defs[top]>>
          \o SortByPriority([k \in 1..(Len(defs) - 1) |-> IF k < top THEN defs[k] ELSE defs[k + 1]])

patterns == SortByPriority(PatternDefinitions)

NoPatternMatch == [name |-> "None", response |-> "", name_len |-> 0, text_len |-> 0]

\* PatternEngine.match changed to keep the last matching pattern of the list
pattern_match_last(command) ==
  LET hits == {i \in 1..Len(patterns) : patterns[i].name \in PatternHits[command]}
      last == patterns[CHOOSE i \in hits : \A j \in hits : i >= j]
  IN IF StrippedLen[command] = 0 \/ hits = {} THEN NoPatternMatch
     ELSE [name |-> last.name, response |-> last.response,
           name_len |-> Max(last.name_len, 1), text_len |-> Max(StrippedLen[command], 1)]

\* PatternEngine.match; the confidence min(1.0, 0.7 + min(0.3, name_len / text_len * 0.3))
\* is carried by the two lengths it is computed from
pattern_match(command) ==
  LET hits == {i \in 1..Len(patterns) : patterns[i].name \in PatternHits[command]}
      first == patterns[CHOOSE i \in hits : \A j \in hits : i <= j]
  IN IF StrippedLen[command] = 0 \/ hits = {} THEN NoPatternMatch
     ELSE [name |-> first.name, response |-> first.response,
           name_len |-> Max(first.name_len, 1), text_len |-> Max(StrippedLen[command], 1)]

\* match.confidence >= limit, the limit in hundredths, both sides times 100 * text_len
ConfidenceAtLeast(match, limit) ==
  Min(100 * match.text_len,
      70 * match.text_len + Min(30 * match.text_len, 30 * match.name_len))
    >= limit * match.text_len

\* ------------------------------------------------------------- SilenceChecker
NoDecision == [silent |-> FALSE, reason |-> "None"]

\* session = None: the caller has no SessionState for the user
NoSession == [session |-> "None"]

\* SilenceChecker.check changed to test the typing flag before the cooldown
silence_check_typing_first(session, command, exit_code, t) ==
  LET has_error == exit_code # 0
  IN IF session # NoSession /\ session.in_editor_mode
       THEN [silent |-> TRUE, reason |-> "in_editor_mode"]
     ELSE IF session # NoSession /\ session.just_self_corrected
       THEN [silent |-> TRUE, reason |-> "self_corrected"]
     ELSE IF ~has_error /\ FirstWordSafe[command]
       THEN [silent |-> TRUE, reason |-> "safe_exploration"]
     ELSE IF session # NoSession /\ session.is_typing
       THEN [silent |-> TRUE, reason |-> "user_typing"]
     ELSE IF /\ ~has_error
             /\ session # NoSession
             /\ session.last_proactive_msg # NoTime
             /\ t - session.last_proactive_msg < settings.proactive_cooldown_seconds
       THEN [silent |-> TRUE, reason |-> "cooldown"]
     ELSE [silent |-> FALSE, reason |-> "may_speak"]

\* SilenceChecker.check changed to apply the cooldown to failed commands too
silence_check_cooldown_on_error(session, command, exit_code, t) ==
  LET has_error == exit_code # 0
  IN IF session # NoSession /\ session.in_editor_mode
       THEN [silent |-> TRUE, reason |-> "in_editor_mode"]
     ELSE IF session # NoSession /\ session.just_self_corrected
       THEN [silent |-> TRUE, reason |-> "self_corrected"]
     ELSE IF ~has_error /\ FirstWordSafe[command]
       THEN [silent |-> TRUE, reason |-> "safe_exploration"]
     ELSE IF /\ session # NoSession
             /\ session.last_proactive_msg # NoTime
             /\ t - session.last_proactive_msg < settings.proactive_cooldown_seconds
       THEN [silent |-> TRUE, reason |-> "cooldown"]
     ELSE IF session # NoSession /\ session.is_typing
       THEN [silent |-> TRUE, reason |-> "user_typing"]
     ELSE [silent |-> FALSE, reason |-> "may_speak"]

\* SilenceChecker.check; t is datetime.now(timezone.utc) in seconds, and
\* parts[0] in SAFE_COMMANDS is carried by FirstWordSafe
silence_check(session, command, exit_code, t) ==
  LET has_error == exit_code # 0
  IN IF session # NoSession /\ session.in_editor_mode
       THEN [silent |-> TRUE, reason |-> "in_editor_mode"]
     ELSE IF session # NoSession /\ session.just_self_corrected
       THEN [silent |-> TRUE, reason |-> "self_corrected"]
     ELSE IF ~has_error /\ FirstWordSafe[command]
       THEN [silent |-> TRUE, reason |-> "safe_exploration"]
     ELSE IF /\ ~has_error
             /\ session # NoSession
             /\ session.last_proactive_msg # NoTime
             /\ t - session.last_proactive_msg < settings.proactive_cooldown_seconds
       THEN [silent |-> TRUE, reason |-> "cooldown"]
     ELSE IF session # NoSession /\ session.is_typing
       THEN [silent |-> TRUE, reason |-> "user_typing"]
     ELSE [silent |-> FALSE, reason |-> "may_speak"]

\* the fields of the TerminalInput dataclass: its __init__ takes exactly these
TerminalInputFields == {"command", "pwd", "exit_code", "output"}

\* the keyword parameters of LLMClient.build_system_prompt(self)
BuildSystemPromptParameters == {}

\* ------------------------------------------------------ GraphBuilder, terminal graph
PipelineResponse ==
  [type |-> "None", content |-> <<>>, sidebar |-> <<>>, silent |-> FALSE, alert |-> "",
   require_confirm |-> FALSE, pattern |-> "", block |-> FALSE]

NoChecks == [safety_block |-> NoSafetyBlock, silence_decision |-> NoDecision,
             pattern_match |-> NoPatternMatch]

\* guardian_node.check_silence: None, a SilenceDecision, or the TypeError of a
\* TerminalInput(...) call with keywords the dataclass does not have
check_silence(t) ==
  LET keywords == {"command", "pwd", "exit_code", "output", "timestamp", "user_id"}
  IN IF ~settings.enable_silence THEN [raised |-> FALSE, decision |-> NoDecision]
     ELSE IF keywords # TerminalInputFields THEN [raised |-> TRUE, decision |-> NoDecision]
     ELSE [raised |-> FALSE,
           decision |-> silence_check(t.session, t.command, t.exit_code, now)]

\* guardian_node: the state after the node, or the raise of the gather
guardian_node(t) ==
  LET safety_block == IF settings.enable_safety THEN safety_check(t.command) ELSE NoSafetyBlock
      silence == check_silence(t)
      silence_decision == silence.decision
      match == IF settings.enable_patterns THEN pattern_match(t.command) ELSE NoPatternMatch
      checked == [t EXCEPT !.checks = [safety_block |-> safety_block,
                                       silence_decision |-> silence_decision,
                                       pattern_match |-> match]]
  IN IF silence.raised THEN [t EXCEPT !.pc = "raised", !.error = "TypeError"]
     ELSE IF safety_block.tier = 1
       THEN [checked EXCEPT
               !.pc = "route",
               !.routing_outcome = "unsafe",
               !.response = [PipelineResponse EXCEPT
                               !.type = "safety", !.block = TRUE,
                               !.alert = safety_block.message,
                               !.content = <<"Command blocked: ", safety_block.message>>,
                               !.sidebar = <<"Command blocked: ", safety_block.message>>]]
     ELSE IF safety_block.tier = 2
       THEN [checked EXCEPT
               !.pc = "route",
               !.routing_outcome = "unsafe",
               !.response = [PipelineResponse EXCEPT
                               !.type = "safety", !.require_confirm = TRUE,
                               !.content = <<"Confirm intent: ", safety_block.message>>,
                               !.sidebar = <<"Confirm intent: ", safety_block.message>>]]
     ELSE IF /\ match # NoPatternMatch
             /\ ConfidenceAtLeast(match, settings.pattern_confidence_threshold)
       THEN [checked EXCEPT
               !.pc = "route",
               !.session.last_proactive_msg = now,
               !.routing_outcome = "pattern",
               !.response = [PipelineResponse EXCEPT
                               !.type = "pattern", !.content = <<match.response>>,
                               !.sidebar = <<match.response>>, !.pattern = match.name]]
     ELSE IF silence_decision # NoDecision /\ silence_decision.silent
       THEN [checked EXCEPT
               !.pc = "route",
               !.session.just_self_corrected = FALSE,
               !.routing_outcome = "silent",
               !.response = [PipelineResponse EXCEPT !.type = "silent", !.silent = TRUE]]
     ELSE [checked EXCEPT !.pc = "route", !.routing_outcome = "continue"]

GuardianNode ==
  /\ turn.pc = "guardian"
  /\ turn' = [guardian_node(turn) EXCEPT !.guardian_outcome = guardian_node(turn).routing_outcome,
                                         !.guardian_response = guardian_node(turn).response]
  /\ UNCHANGED <<settings, now, rate_limiter, llm_vars, rl_vars, ctx>>

\* route_guardian changed to end the run on 'unsafe' and 'silent' only
route_guardian_pattern_goes_on(outcome) ==
  IF outcome \in {"unsafe", "silent"} THEN "END" ELSE "planner"

route_guardian(outcome) ==
  IF outcome \in {"unsafe", "pattern", "silent"} THEN "END" ELSE "planner"

\* the conditional edge after guardian
RouteGuardian ==
  /\ turn.pc = "route"
  /\ turn' = [turn EXCEPT !.pc = route_guardian(turn.routing_outcome)]
  /\ UNCHANGED <<settings, now, rate_limiter, llm_vars, rl_vars, ctx>>

\* planner_node changed to stay silent only when the LLM is disabled and the
\* command succeeded
planner_node_silent_needs_both(t) ==
  LET entered == [t EXCEPT !.planner_entered = TRUE]
  IN IF t.routing_outcome \in {"unsafe", "pattern", "silent"}
     THEN [entered EXCEPT !.pc = "END"]
     ELSE IF ~settings.enable_llm /\ t.exit_code = 0
     THEN [entered EXCEPT !.pc = "END",
                          !.routing_outcome = "silent",
                          !.response = [PipelineResponse EXCEPT !.type = "silent", !.silent = TRUE]]
     ELSE IF ~({"mode"} \subseteq BuildSystemPromptParameters)
     THEN [entered EXCEPT !.pc = "raised", !.error = "TypeError"]
     ELSE [entered EXCEPT !.pc = "prepare"]

\* planner_node up to its first call on the LLM client: the node returns without
\* the LLM, or build_system_prompt(mode="terminal") raises TypeError because
\* LLMClient.build_system_prompt takes no mode
planner_node(t) ==
  LET entered == [t EXCEPT !.planner_entered = TRUE]
  IN IF t.routing_outcome \in {"unsafe", "pattern", "silent"}
     THEN [entered EXCEPT !.pc = "END"]
     ELSE IF ~settings.enable_llm \/ t.exit_code = 0
     THEN [entered EXCEPT !.pc = "END",
                          !.routing_outcome = "silent",
                          !.response = [PipelineResponse EXCEPT !.type = "silent", !.silent = TRUE]]
     ELSE IF ~({"mode"} \subseteq BuildSystemPromptParameters)
     THEN [entered EXCEPT !.pc = "raised", !.error = "TypeError"]
     ELSE [entered EXCEPT !.pc = "prepare"]

PlannerNode ==
  /\ turn.pc = "planner"
  /\ turn' = planner_node(turn)
  /\ UNCHANGED <<settings, now, rate_limiter, llm_vars, rl_vars, ctx>>

SessionStates ==
  [in_editor_mode : BOOLEAN, just_self_corrected : BOOLEAN, is_typing : BOOLEAN,
   last_proactive_msg : {NoTime, 0}]

\* the AgentState server._build_agent_state hands to the graph
TurnStart(command, exit_code, session) ==
  [pc |-> "guardian",
   command |-> command,
   exit_code |-> exit_code,
   session |-> session,
   routing_outcome |-> "None",
   response |-> PipelineResponse,
   error |-> "",
   checks |-> NoChecks,
   guardian_outcome |-> "None",
   guardian_response |-> PipelineResponse,
   planner_entered |-> FALSE,
   logs |-> <<>>]

SettingsPipeline ==
  {[Defaults EXCEPT !.enable_safety = safety, !.enable_silence = silence,
                    !.enable_patterns = pats, !.enable_llm = llm,
                    !.pattern_confidence_threshold = limit,
                    !.proactive_cooldown_seconds = 2] :
     safety \in BOOLEAN, silence \in BOOLEAN, pats \in BOOLEAN, llm \in BOOLEAN,
     limit \in {70, 90}}

InitPipeline ==
  /\ settings \in SettingsPipeline
  /\ model = "bound"
  /\ now \in {1, MaxTime}
  /\ rate_limiter = RateLimiterInit
  /\ LLMIdle
  /\ RLIdle
  /\ CtxIdle
  /\ \E command \in Commands, exit_code \in {0, 1}, session \in SessionStates :
       turn = TurnStart(command, exit_code, session)

SpecPipeline == InitPipeline /\ [][GuardianNode \/ RouteGuardian \/ PlannerNode]_vars

\* ------------------------------------- the three checkers, called directly
\* one command handed to SafetyChecker.check, PatternEngine.match and
\* SilenceChecker.check, each at most once and in any order
Direct(command, exit_code, session) ==
  [pc |-> "direct",
   command |-> command,
   exit_code |-> exit_code,
   session |-> session,
   applied |-> {},
   safety_block |-> NoSafetyBlock,
   pattern_match |-> NoPatternMatch,
   silence_decision |-> NoDecision]

SafetyCheck ==
  /\ turn.pc = "direct"
  /\ "safety" \notin turn.applied
  /\ turn' = [turn EXCEPT !.applied = @ \cup {"safety"},
                          !.safety_block = safety_check(turn.command)]
  /\ UNCHANGED <<settings, now, rate_limiter, llm_vars, rl_vars, ctx>>

PatternMatch ==
  /\ turn.pc = "direct"
  /\ "patterns" \notin turn.applied
  /\ turn' = [turn EXCEPT !.applied = @ \cup {"patterns"},
                          !.pattern_match = pattern_match(turn.command)]
  /\ UNCHANGED <<settings, now, rate_limiter, llm_vars, rl_vars, ctx>>

SilenceCheck ==
  /\ turn.pc = "direct"
  /\ "silence" \notin turn.applied
  /\ turn' = [turn EXCEPT !.applied = @ \cup {"silence"},
                          !.silence_decision =
                             silence_check(turn.session, turn.command, turn.exit_code, now)]
  /\ UNCHANGED <<settings, now, rate_limiter, llm_vars, rl_vars, ctx>>

\* SessionState objects whose last proactive message is not in the future
SessionsDirect ==
  [in_editor_mode : BOOLEAN, just_self_corrected : BOOLEAN, is_typing : BOOLEAN,
   last_proactive_msg : {NoTime, 0, 1}]

SettingsCheckers ==
  {[Defaults EXCEPT !.proactive_cooldown_seconds = cooldown] : cooldown \in {1, 2}}

InitCheckers ==
  /\ settings \in SettingsCheckers
  /\ model = "bound"
  /\ now \in 1..MaxTime
  /\ rate_limiter = RateLimiterInit
  /\ LLMIdle
  /\ RLIdle
  /\ CtxIdle
  /\ \E command \in Commands, exit_code \in {0, 1}, session \in SessionsDirect \cup {NoSession} :
       turn = Direct(command, exit_code, session)

SpecCheckers == InitCheckers /\ [][SafetyCheck \/ PatternMatch \/ SilenceCheck]_vars

\* ------------------------------------------------------ GraphBuilder, chat graph
\* the AgentState of a Chat request: the checkpointed messages of the thread and
\* the new HumanMessage, the last of the list
ChatStart(history, message) ==
  [pc |-> "chat",
   messages |-> history \o <<[id |-> Len(history) + 1, type |-> "human", content |-> message]>>,
   current_content |-> 0,
   history_messages |-> <<>>,
   routing_outcome |-> "None",
   response |-> PipelineResponse,
   error |-> "",
   chat_entered |-> FALSE,
   reply |-> [response_type |-> "None", error_message |-> ""]]

\* chat_node up to its first call on the LLM client: there is no test of
\* enable_llm, and build_system_prompt(mode="chat") raises TypeError because
\* LLMClient.build_system_prompt takes no mode
chat_node(t) ==
  LET n == Len(t.messages)
      entered == [t EXCEPT !.chat_entered = TRUE,
                           !.current_content = IF n > 0 THEN t.messages[n].content ELSE 0,
                           !.history_messages = IF n > 0 THEN SubSeq(t.messages, 1, n - 1) ELSE <<>>]
  IN IF ~({"mode"} \subseteq BuildSystemPromptParameters)
     THEN [entered EXCEPT !.pc = "raised", !.error = "TypeError"]
     ELSE [entered EXCEPT !.pc = "prepare"]

ChatNode ==
  /\ turn.pc = "chat"
  /\ turn' = chat_node(turn)
  /\ UNCHANGED <<settings, now, rate_limiter, llm_vars, rl_vars, ctx>>

\* AgentServicer.Chat after astream_events: an exception of the graph is caught
\* and answered with an error response, otherwise the closing chat response
ChatReply ==
  /\ turn.pc \in {"raised", "END"}
  /\ turn.chat_entered
  /\ turn' = [turn EXCEPT
                !.pc = "replied",
                !.reply = IF turn.pc = "raised"
                          THEN [response_type |-> "error",
                                error_message |-> "An unexpected error occurred"]
                          ELSE [response_type |-> "chat", error_message |-> ""]]
  /\ UNCHANGED <<settings, now, rate_limiter, llm_vars, rl_vars, ctx>>

SettingsChat ==
  {[Defaults EXCEPT !.enable_llm = llm, !.conversation_compaction_enabled = enabled] :
     llm \in BOOLEAN, enabled \in BOOLEAN}

InitChat ==
  /\ settings \in SettingsChat
  /\ model \in {"None", "bound"}
  /\ settings.enable_llm \/ model = "None"
  /\ now = 0
  /\ rate_limiter = RateLimiterInit
  /\ LLMIdle
  /\ RLIdle
  /\ CtxIdle
  /\ \E pairs \in 0..MaxFold, chars \in {4, 200}, message \in {0, 4, 200} :
       turn = ChatStart(Conversation(2 * pairs, chars), message)

SpecChat == InitChat /\ [][ChatNode \/ ChatReply]_vars

\* ------------------------------------------- the nodes after generate returned
\* LLMResult.error: None, or the Exception generate caught or built
NoError == [text |-> "None"]

\* the texts of provider exceptions
ProviderErrors == {"", "401 invalid api key sk-live-123", "quota exceeded for project 42"}

LLMResults ==
  [response : {"", "Use ls -la.", "Permission denied: try sudo."}, error : {NoError}]
    \cup [response : {""},
          error : [text : {"rate limited: 0.50s", "model not configured", "circuit breaker open"}
                            \cup ProviderErrors]]

\* planner_node changed to put the text of the error into the response
planner_answer_with_error_text(llm_result, command) ==
  IF llm_result.error # NoError
  THEN [routing_outcome |-> "error",
        response |-> [PipelineResponse EXCEPT
                        !.type = "error",
                        !.content = <<"AI assistant unavailable: ", llm_result.error.text>>],
        messages |-> <<>>,
        proactive |-> FALSE]
  ELSE [routing_outcome |-> "None",
        response |-> [PipelineResponse EXCEPT !.type = "llm",
                                              !.content = <<llm_result.response>>,
                                              !.sidebar = <<llm_result.response>>],
        messages |-> <<<<"human", "Command: ", command>>, <<"ai", llm_result.response>>>>,
        proactive |-> TRUE]

\* planner_node from "if result.error" on: the updates the node returns (the
\* messages without the remove operations), and whether
\* record_proactive_message was called
planner_answer(llm_result, command) ==
  IF llm_result.error # NoError
  THEN [routing_outcome |-> "error",
        response |-> [PipelineResponse EXCEPT !.type = "error",
                                              !.content = <<"AI assistant unavailable">>],
        messages |-> <<>>,
        proactive |-> FALSE]
  ELSE [routing_outcome |-> "None",
        response |-> [PipelineResponse EXCEPT !.type = "llm",
                                              !.content = <<llm_result.response>>,
                                              !.sidebar = <<llm_result.response>>],
        messages |-> <<<<"human", "Command: ", command>>, <<"ai", llm_result.response>>>>,
        proactive |-> TRUE]

\* chat_node from "if result.error" on
chat_answer(llm_result) ==
  IF llm_result.error # NoError
  THEN [routing_outcome |-> "None",
        response |-> [PipelineResponse EXCEPT !.type = "error", !.content = <<"AI unavailable">>],
        messages |-> <<>>,
        proactive |-> FALSE]
  ELSE [routing_outcome |-> "None",
        response |-> [PipelineResponse EXCEPT !.type = "llm",
                                              !.content = <<llm_result.response>>,
                                              !.sidebar = <<llm_result.response>>],
        messages |-> <<<<"ai", llm_result.response>>>>,
        proactive |-> FALSE]

\* AgentServicer._to_proto_response: the AgentResponse of a PipelineResponse
to_proto_response(response, user_id) ==
  [type |-> response.type, content |-> response.content, sidebar |-> response.sidebar,
   silent |-> response.silent, alert |-> response.alert,
   require_confirm |-> response.require_confirm, pattern |-> response.pattern,
   block |-> response.block, user_id |-> user_id]

\* AgentServicer.Chat, the ChatResponse it yields for the response of a
\* chain-end event when nothing was streamed: the error message of an error
\* response, the content of any other
chat_response(response) ==
  IF response.type = "error"
  THEN [content |-> response.content, is_complete |-> TRUE, response_type |-> "error",
        error_message |-> response.content]
  ELSE [content |-> response.content, is_complete |-> FALSE, response_type |-> "chat",
        error_message |-> <<>>]

\* what the user sees of the answer of a node
Visible(node, answer, user_id) ==
  IF node = "planner" THEN to_proto_response(answer.response, user_id)
  ELSE chat_response(answer.response)

PlannerAnswers ==
  /\ turn.pc = "generated" /\ turn.node = "planner"
  /\ LET answer == planner_answer(turn.result, turn.command)
     IN turn' = [turn EXCEPT !.pc = "answered", !.answer = answer,
                             !.visible = Visible("planner", answer, turn.user_id)]
  /\ UNCHANGED <<settings, now, rate_limiter, llm_vars, rl_vars, ctx>>

ChatAnswers ==
  /\ turn.pc = "generated" /\ turn.node = "chat"
  /\ LET answer == chat_answer(turn.result)
     IN turn' = [turn EXCEPT !.pc = "answered", !.answer = answer,
                             !.visible = Visible("chat", answer, turn.user_id)]
  /\ UNCHANGED <<settings, now, rate_limiter, llm_vars, rl_vars, ctx>>

InitAnswer ==
  /\ settings = Defaults
  /\ model = "bound"
  /\ now = 0
  /\ rate_limiter = RateLimiterInit
  /\ LLMIdle
  /\ RLIdle
  /\ CtxIdle
  /\ \E node \in {"planner", "chat"}, llm_result \in LLMResults, command \in Commands,
        user_id \in {"u1", "alice_Bob-123"} :
       /\ node = "chat" => command = "ls"
       /\ turn = [pc |-> "generated", node |-> node, result |-> llm_result,
                  command |-> command, user_id |-> user_id,
                  answer |-> chat_answer([response |-> "", error |-> NoError]),
                  visible |-> <<>>]

SpecAnswer == InitAnswer /\ [][PlannerAnswers \/ ChatAnswers]_vars

\* ----------------------------------------------------- AgentServicer, requests
\* The identifiers of the requests, each with len(value), whether
\* _USER_ID_RE.match(value) succeeds ('$' also matches before a trailing newline),
\* and whether a character of it is outside a-z, A-Z, 0-9, _, -
IdProperties ==
  ("" :>
     [length |-> 0, matches |-> FALSE, outside |-> FALSE])
  @@ ("u1" :>
     [length |-> 2, matches |-> TRUE, outside |-> FALSE])
  @@ ("valid-user" :>
     [length |-> 10, matches |-> TRUE, outside |-> FALSE])
  @@ ("bad/user" :>
     [length |-> 8, matches |-> FALSE, outside |-> TRUE])
  @@ ("u1\n" :>
     [length |-> 3, matches |-> TRUE, outside |-> TRUE])
  @@ ("aaaaaaaaaaaaaaaaaaaaaaaaaaaaaaaaaaaaaaaaaaaaaaaaaaaaaaaaaaaaaaaaaaaaaaaaaaaaaaaaaaaaaaaaaaaaaaaaaaaaaaaaaaaaaaaaaaaaaaaaaaaaaaaaa" :>
     [length |-> 129, matches |-> TRUE, outside |-> FALSE])
  @@ ("sess-1" :>
     [length |-> 6, matches |-> TRUE, outside |-> FALSE])

\* _validate_id: the value returned, or the ValueError raised
validate_id(value, name, max_len, required, use_pattern, default) ==
  IF value = ""
  THEN IF required
       THEN [raised |-> TRUE, value |-> value, text |-> <<name, " is required">>]
       ELSE [raised |-> FALSE, value |-> default, text |-> <<>>]
  ELSE IF IdProperties[value].length > max_len
  THEN [raised |-> TRUE, value |-> value,
        text |-> <<name, " exceeds maximum length of ", max_len, " characters">>]
  ELSE IF use_pattern /\ ~IdProperties[value].matches
  THEN [raised |-> TRUE, value |-> value,
        text |-> <<name, " contains invalid characters (allowed: a-z, A-Z, 0-9, _, -)">>]
  ELSE [raised |-> FALSE, value |-> value, text |-> <<>>]

\* the methods of class SessionStore that take arguments, with their parameters
\* after self
SessionStoreParameters == [load |-> <<"user_id">>, save |-> <<"session">>]

\* self.session_store.<method>(<nargs arguments>): how the call ends.  The
\* servicer holds the SessionStore its __init__ built, or, in the tests, a
\* MagicMock whose load returns a SessionState or raises RuntimeError and whose
\* delete returns what the test set.
store_call(store, method, nargs) ==
  IF store.kind = "SessionStore"
  THEN IF method \notin DOMAIN SessionStoreParameters THEN "AttributeError"
       ELSE IF nargs # Len(SessionStoreParameters[method]) THEN "TypeError"
       ELSE "returns"
  ELSE IF method = "load" /\ store.load_raises THEN "RuntimeError"
  ELSE "returns"

Stores ==
  {[kind |-> "SessionStore", load_raises |-> FALSE, delete_returns |-> FALSE]}
    \cup [kind : {"MagicMock"}, load_raises : BOOLEAN, delete_returns : BOOLEAN]

\* terminal_app.astream_events: the on_chain_end events of a run whose output is
\* a dict, in order (the output of each node that ran, then the final state of
\* the graph), and whether the run raised after them
terminal_run(start) ==
  LET g == guardian_node(start)
      node_end(t) == [session |-> FALSE, response |-> t.response]
      graph_end(t) == [session |-> TRUE, response |-> t.response]
      p == planner_node(g)
  IN IF g.pc = "raised" THEN [events |-> <<>>, raised |-> TRUE]
     ELSE IF route_guardian(g.routing_outcome) = "END"
     THEN [events |-> <<node_end(g), graph_end(g)>>, raised |-> FALSE]
     ELSE IF p.pc = "END"
     THEN [events |-> <<node_end(g), node_end(p), graph_end(p)>>, raised |-> FALSE]
     ELSE [events |-> <<node_end(g)>>, raised |-> TRUE]

\* ProcessTerminal with its first except clause only
terminal_except_first_clause_only(kind, text, user_id) ==
  IF kind \in {"ValueError", "RpcError", "CancelledError"}
  THEN [escaped |-> FALSE,
        response |-> to_proto_response(
                       [PipelineResponse EXCEPT !.type = "error",
                                                !.content = <<"Error processing command: ">> \o text],
                       user_id)]
  ELSE [escaped |-> TRUE, response |-> to_proto_response(PipelineResponse, user_id)]

\* the except clauses of ProcessTerminal: the AgentResponse yielded for an
\* exception, or the exception leaving the handler
terminal_except(kind, text, user_id) ==
  IF kind \in {"ValueError", "RpcError", "CancelledError"}
  THEN [escaped |-> FALSE,
        response |-> to_proto_response(
                       [PipelineResponse EXCEPT !.type = "error",
                                                !.content = <<"Error processing command: ">> \o text],
                       user_id)]
  ELSE IF kind \in {"TypeError", "RuntimeError", "AttributeError"}
  THEN [escaped |-> FALSE,
        response |-> to_proto_response(
                       [PipelineResponse EXCEPT
                          !.type = "error",
                          !.content = <<"An unexpected error occurred while processing the command">>],
                       user_id)]
  ELSE [escaped |-> TRUE, response |-> to_proto_response(PipelineResponse, user_id)]

\* _response_key (no node of the graph sets tools_used)
response_key(response) ==
  <<response.type, response.content, response.sidebar, response.silent, response.alert,
    response.require_confirm, response.pattern, response.block>>

\* the body of the loop of ProcessTerminal with every response yielded
terminal_step_no_dedup(output, store, user_id, out) ==
  LET saved == IF output.session THEN store_call(store, "save", 2) ELSE "returns"
      after_save == IF output.session THEN [out EXCEPT !.effects = Append(@, "save")] ELSE out
  IN IF saved # "returns" THEN [after_save EXCEPT !.raised = saved]
     ELSE IF output.response # PipelineResponse
     THEN [after_save EXCEPT
             !.yielded = Append(@, to_proto_response(output.response, user_id)),
             !.effects = Append(@, "yield"),
             !.emitted_response_key = response_key(output.response)]
     ELSE after_save

\* the body of the loop of ProcessTerminal for one on_chain_end event whose
\* output is a dict, lines 238-245: out.yielded are the responses yielded so far,
\* out.effects the saves and yields in the order they happened
terminal_step(output, store, user_id, out) ==
  LET saved == IF output.session THEN store_call(store, "save", 2) ELSE "returns"
      after_save == IF output.session THEN [out EXCEPT !.effects = Append(@, "save")] ELSE out
  IN IF saved # "returns" THEN [after_save EXCEPT !.raised = saved]
     ELSE IF /\ output.response # PipelineResponse
             /\ out.emitted_response_key # response_key(output.response)
     THEN [after_save EXCEPT
             !.yielded = Append(@, to_proto_response(output.response, user_id)),
             !.effects = Append(@, "yield"),
             !.emitted_response_key = response_key(output.response)]
     ELSE after_save

\* the loop of ProcessTerminal over the events, until one of them raises
RECURSIVE terminal_loop(_, _, _, _)
terminal_loop(events, store, user_id, out) ==
  IF events = <<>> \/ out.raised # "" THEN out
  ELSE terminal_loop(Tail(events), store, user_id,
                     terminal_step(Head(events), store, user_id, out))

\* ProcessTerminal, whole, for one run of the terminal graph: what it yields,
\* its calls on the store and the graph in order, and whether an exception left
\* it
process_terminal(request, store, run) ==
  LET uid == validate_id(request.user_id, "user_id", 128, TRUE, TRUE, "")
      sid == validate_id(request.session_id, "session_id", 256, FALSE, FALSE, uid.value)
      user_id == request.user_id
      loaded == store_call(store, "load", 2)
      looped == terminal_loop(run.events, store, user_id,
                              [yielded |-> <<>>, effects |-> <<"load", "graph">>,
                               emitted_response_key |-> <<>>, raised |-> ""])
      failed(kind, text, yielded, effects) ==
        LET handled == terminal_except(kind, text, user_id)
        IN [yielded |-> IF handled.escaped THEN yielded ELSE Append(yielded, handled.response),
            effects |-> IF handled.escaped THEN effects ELSE Append(effects, "yield"),
            escaped |-> handled.escaped, raised |-> kind]
  IN IF uid.raised THEN failed("ValueError", uid.text, <<>>, <<>>)
     ELSE IF sid.raised THEN failed("ValueError", sid.text, <<>>, <<>>)
     ELSE IF loaded # "returns" THEN failed(loaded, <<>>, <<>>, <<"load">>)
     ELSE IF looped.raised # "" THEN failed(looped.raised, <<>>, looped.yielded, looped.effects)
     ELSE IF run.raised THEN failed("TypeError", <<>>, looped.yielded, looped.effects)
     ELSE [yielded |-> looped.yielded, effects |-> looped.effects, escaped |-> FALSE,
           raised |-> ""]

\* a request waiting to be served
Request(rpc, store, request) ==
  [pc |-> "request", rpc |-> rpc, store |-> store, request |-> request,
   yielded |-> <<>>, effects |-> <<>>, escaped |-> FALSE, raised |-> ""]

ProcessTerminal ==
  /\ turn.pc = "request" /\ turn.rpc = "ProcessTerminal"
  /\ LET session == [in_editor_mode |-> FALSE, just_self_corrected |-> FALSE,
                      is_typing |-> FALSE, last_proactive_msg |-> NoTime]
     IN \E run \in {terminal_run(TurnStart(turn.request.command, turn.request.exit_code,
                                           session))} :
          \E out \in {process_terminal(turn.request, turn.store, run)} :
            turn' = [turn EXCEPT !.pc = "done", !.yielded = out.yielded,
                                 !.effects = out.effects, !.escaped = out.escaped,
                                 !.raised = out.raised]
  /\ UNCHANGED <<settings, now, rate_limiter, llm_vars, rl_vars, ctx>>

\* ------------------------------------------------------------- AgentServicer.Chat
\* the events astream_events can deliver to Chat: a chunk of the model (its
\* content may be empty), the end of a chain whose output is not a dict, the end
\* of a chain whose output is a dict with or without "session" and with the
\* response of chat_node or none, and any other event
ChatEvents ==
  [event : {"on_chat_model_stream"}, content : {"", "tok"}, dict : {FALSE},
   session : {FALSE}, response : {PipelineResponse}]
    \cup [event : {"on_chain_end"}, content : {""}, dict : {FALSE}, session : {FALSE},
          response : {PipelineResponse}]
    \cup [event : {"on_chain_end"}, content : {""}, dict : {TRUE}, session : BOOLEAN,
          response : {PipelineResponse} \cup {chat_answer(r).response : r \in LLMResults}]
    \cup [event : {"on_chain_start"}, content : {""}, dict : {FALSE}, session : {FALSE},
          response : {PipelineResponse}]

\* self.chat_app.astream_events: the compiled chat graph, or the _StubApp(events)
\* of the tests, which delivers its events and may then raise
chat_runs(app, message) ==
  IF app.kind = "_StubApp" THEN {[events |-> app.events, raised |-> app.raises]}
  ELSE LET c == chat_node(ChatStart(<<>>, message))
           node_end(r) == [event |-> "on_chain_end", content |-> "", dict |-> TRUE,
                           session |-> FALSE, response |-> chat_answer(r).response]
           graph_end(r) == [node_end(r) EXCEPT !.session = TRUE]
       IN IF c.pc = "raised" THEN {[events |-> <<>>, raised |-> c.error]}
          ELSE {[events |-> <<node_end(r), graph_end(r)>>, raised |-> ""] : r \in LLMResults}

\* the body of the loop of Chat with the completion marker after an error response
chat_step_no_return(event, store, out) ==
  LET saved == IF event.dict /\ event.session THEN store_call(store, "save", 2) ELSE "returns"
      after_save == IF event.dict /\ event.session
                    THEN [out EXCEPT !.effects = Append(@, "save")] ELSE out
      response == event.response
  IN IF event.event = "on_chat_model_stream"
     THEN IF event.content # ""
          THEN [out EXCEPT !.streamed_content = TRUE,
                           !.yielded = Append(@, [content |-> <<event.content>>,
                                                  is_complete |-> FALSE,
                                                  response_type |-> "chat",
                                                  error_message |-> <<>>]),
                           !.effects = Append(@, "yield")]
          ELSE out
     ELSE IF event.event # "on_chain_end" \/ ~event.dict THEN out
     ELSE IF saved # "returns" THEN [after_save EXCEPT !.raised = saved]
     ELSE IF response.type = "error" /\ ~out.emitted_error
     THEN [after_save EXCEPT !.emitted_error = TRUE,
                             !.yielded = Append(@, chat_response(response)),
                             !.effects = Append(@, "yield")]
     ELSE IF /\ response # PipelineResponse
             /\ response.content \notin {<<>>, <<"">>}
             /\ ~out.streamed_content
     THEN [after_save EXCEPT !.streamed_content = TRUE,
                             !.yielded = Append(@, chat_response(response)),
                             !.effects = Append(@, "yield")]
     ELSE after_save

\* the body of the loop of Chat for one event, lines 140-173
chat_step(event, store, out) ==
  LET saved == IF event.dict /\ event.session THEN store_call(store, "save", 2) ELSE "returns"
      after_save == IF event.dict /\ event.session
                    THEN [out EXCEPT !.effects = Append(@, "save")] ELSE out
      response == event.response
  IN IF event.event = "on_chat_model_stream"
     THEN IF event.content # ""
          THEN [out EXCEPT !.streamed_content = TRUE,
                           !.yielded = Append(@, [content |-> <<event.content>>,
                                                  is_complete |-> FALSE,
                                                  response_type |-> "chat",
                                                  error_message |-> <<>>]),
                           !.effects = Append(@, "yield")]
          ELSE out
     ELSE IF event.event # "on_chain_end" \/ ~event.dict THEN out
     ELSE IF saved # "returns" THEN [after_save EXCEPT !.raised = saved]
     ELSE IF response.type = "error" /\ ~out.emitted_error
     THEN [after_save EXCEPT !.emitted_error = TRUE,
                             !.yielded = Append(@, chat_response(response)),
                             !.effects = Append(@, "yield"),
                             !.returned = TRUE]
     ELSE IF /\ response # PipelineResponse
             /\ response.content \notin {<<>>, <<"">>}
             /\ ~out.streamed_content
     THEN [after_save EXCEPT !.streamed_content = TRUE,
                             !.yielded = Append(@, chat_response(response)),
                             !.effects = Append(@, "yield")]
     ELSE after_save

\* the loop of Chat over the events, until one raises or the handler returns
RECURSIVE chat_loop(_, _, _)
chat_loop(events, store, out) ==
  IF events = <<>> \/ out.raised # "" \/ out.returned THEN out
  ELSE chat_loop(Tail(events), store, chat_step(Head(events), store, out))

\* Chat, whole, for one run of the chat app: what it yields, its calls on the
\* store and the graph in order, and whether an exception left it
chat(request, store, run) ==
  LET uid == validate_id(request.user_id, "user_id", 128, TRUE, TRUE, "")
      sid == validate_id(request.session_id, "session_id", 256, FALSE, FALSE, uid.value)
      loaded == store_call(store, "load", 2)
      looped == chat_loop(run.events, store,
                          [yielded |-> <<>>, effects |-> <<"load", "graph">>,
                           streamed_content |-> FALSE, emitted_error |-> FALSE,
                           returned |-> FALSE, raised |-> ""])
      error(text) == [content |-> <<"">>, is_complete |-> TRUE, response_type |-> "error",
                      error_message |-> text]
      failed(kind, text, yielded, effects) ==
        IF kind \in {"ValueError", "RpcError", "CancelledError"}
        THEN [yielded |-> Append(yielded, error(text)), effects |-> Append(effects, "yield"),
              escaped |-> FALSE, raised |-> kind]
        ELSE IF kind \in {"TypeError", "RuntimeError", "AttributeError"}
        THEN [yielded |-> Append(yielded, error(<<"An unexpected error occurred">>)),
              effects |-> Append(effects, "yield"), escaped |-> FALSE, raised |-> kind]
        ELSE [yielded |-> yielded, effects |-> effects, escaped |-> TRUE, raised |-> kind]
  IN IF uid.raised THEN failed("ValueError", uid.text, <<>>, <<>>)
     ELSE IF sid.raised THEN failed("ValueError", sid.text, <<>>, <<>>)
     ELSE IF loaded # "returns" THEN failed(loaded, <<>>, <<>>, <<"load">>)
     ELSE IF looped.raised # "" THEN failed(looped.raised, <<>>, looped.yielded, looped.effects)
     ELSE IF looped.returned
     THEN [yielded |-> looped.yielded, effects |-> looped.effects, escaped |-> FALSE,
           raised |-> ""]
     ELSE IF run.raised # ""
     THEN failed(run.raised, <<"stream failed">>, looped.yielded, looped.effects)
     ELSE [yielded |-> Append(looped.yielded,
                              [content |-> <<>>, is_complete |-> TRUE,
                               response_type |-> "chat", error_message |-> <<>>]),
           effects |-> Append(looped.effects, "yield"), escaped |-> FALSE, raised |-> ""]

Chat ==
  /\ turn.pc = "request" /\ turn.rpc = "Chat"
  /\ \E run \in chat_runs(turn.request.app, turn.request.message) :
       LET out == chat(turn.request, turn.store, run)
       IN turn' = [turn EXCEPT !.pc = "done", !.yielded = out.yielded,
                               !.effects = out.effects, !.escaped = out.escaped,
                               !.raised = out.raised]
  /\ UNCHANGED <<settings, now, rate_limiter, llm_vars, rl_vars, ctx>>

\* ----------------------------------------------------- AgentServicer.ResetSession
\* _delete_checkpoint_thread for a servicer without checkpointer handle, or with
\* a saver that has adelete_thread, only delete_thread, or neither; the method
\* found may raise
delete_checkpoint_thread(checkpointer) ==
  IF checkpointer.saver = "None" THEN TRUE
  ELSE IF checkpointer.saver \in {"adelete_thread", "delete_thread"} THEN ~checkpointer.raises
  ELSE FALSE

\* ResetSession, whole: the response returned and the calls made in order
reset_session(request, store) ==
  LET uid == validate_id(request.user_id, "user_id", 128, TRUE, TRUE, "")
      sid == validate_id(request.session_id, "session_id", 256, FALSE, FALSE, uid.value)
      deleted == store_call(store, "delete", 2)
      session_deleted == store.delete_returns
      checkpoint_deleted == delete_checkpoint_thread(request.checkpointer)
      status_parts == (IF ~session_deleted THEN <<"session_store_delete_failed">> ELSE <<>>)
                        \o (IF ~checkpoint_deleted THEN <<"checkpoint_delete_failed">> ELSE <<>>)
  IN IF uid.raised
     THEN [yielded |-> <<[ok |-> FALSE, status |-> uid.text]>>, effects |-> <<>>,
           escaped |-> FALSE, raised |-> "ValueError"]
     ELSE IF sid.raised
     THEN [yielded |-> <<[ok |-> FALSE, status |-> sid.text]>>, effects |-> <<>>,
           escaped |-> FALSE, raised |-> "ValueError"]
     ELSE IF deleted # "returns"
     THEN [yielded |-> <<[ok |-> FALSE, status |-> <<"An unexpected error occurred">>]>>,
           effects |-> <<"delete">>, escaped |-> FALSE, raised |-> deleted]
     ELSE IF session_deleted /\ checkpoint_deleted
     THEN [yielded |-> <<[ok |-> TRUE, status |-> <<"reset">>]>>,
           effects |-> <<"delete", "checkpoint_delete">>, escaped |-> FALSE, raised |-> ""]
     ELSE [yielded |-> <<[ok |-> FALSE,
                          status |-> IF status_parts # <<>> THEN status_parts
                                     ELSE <<"reset_partial">>]>>,
           effects |-> <<"delete", "checkpoint_delete">>, escaped |-> FALSE, raised |-> ""]

ResetSession ==
  /\ turn.pc = "request" /\ turn.rpc = "ResetSession"
  /\ LET out == reset_session(turn.request, turn.store)
     IN turn' = [turn EXCEPT !.pc = "done", !.yielded = out.yielded, !.effects = out.effects,
                             !.escaped = out.escaped, !.raised = out.raised]
  /\ UNCHANGED <<settings, now, rate_limiter, llm_vars, rl_vars, ctx>>

\* AgentServicer.__init__ or the tests' servicer, and one request: a terminal
\* request under each combination of the feature flags, a chat request to the
\* chat graph or to a stub app that delivers up to MaxEvents events and may then
\* raise, or a reset request with one of the checkpointers
InitServer ==
  /\ \/ /\ settings \in {s \in SettingsPipeline : s.pattern_confidence_threshold = 70}
        /\ turn \in {Request("ProcessTerminal", store,
                             [user_id |-> user_id, session_id |-> session_id,
                              command |-> command, exit_code |-> exit_code]) :
                       store \in {s \in Stores : ~s.delete_returns},
                       user_id \in DOMAIN IdProperties \ {"sess-1"},
                       session_id \in {"", "sess-1"},
                       command \in Commands, exit_code \in {0, 1}}
     \/ /\ settings = Defaults
        /\ turn \in {Request("Chat", store,
                             [user_id |-> user_id, session_id |-> "",
                              message |-> "why did that fail?", app |-> app]) :
                       store \in {s \in Stores : ~s.delete_returns},
                       user_id \in {"", "u1", "bad/user"},
                       app \in {[kind |-> "graph", events |-> <<>>, raises |-> ""]}
                                 \cup {[kind |-> "_StubApp", events |-> events,
                                        raises |-> raises] :
                                         events \in UNION {[1..n -> ChatEvents] :
                                                             n \in 0..MaxEvents},
                                         raises \in {"", "RuntimeError", "ValueError",
                                                     "CancelledError"}}}
     \/ /\ settings = Defaults
        /\ turn \in {Request("ResetSession", store,
                             [user_id |-> user_id, session_id |-> session_id,
                              checkpointer |-> checkpointer]) :
                       store \in {s \in Stores : ~s.load_raises},
                       user_id \in DOMAIN IdProperties \ {"sess-1"},
                       session_id \in {"", "sess-1"},
                       checkpointer \in
                         {[saver |-> "None", raises |-> FALSE],
                          [saver |-> "unsupported", raises |-> FALSE]}
                           \cup [saver : {"adelete_thread", "delete_thread"},
                                 raises : BOOLEAN]}
  /\ model = "bound"
  /\ now = 1
  /\ rate_limiter = RateLimiterInit
  /\ LLMIdle
  /\ RLIdle
  /\ CtxIdle

SpecServer == InitServer /\ [][ProcessTerminal \/ Chat \/ ResetSession]_vars

\* ------------------------------------------------------------------ SessionStore
\* SessionStore._key
store_key(user_id) == <<"agent:session:", user_id>>

\* the payloads a caller saves: SessionState(user_id="u1") with in_editor_mode
\* set or not; NoPayload is a key redis does not hold
NoPayload == [saved |-> FALSE, in_editor_mode |-> FALSE]

\* store.save(session) or store.save(session, session_id) for a session of user
\* u1: the call is made with the arguments the caller gives, session_id "None"
\* being the call without one.  under[sid] remembers the payload the caller
\* last handed over for sid.
Save ==
  /\ turn.pc = "store"
  /\ \E payload \in [saved : {TRUE}, in_editor_mode : BOOLEAN], session_id \in {"None", "sess-a", "sess-b"}, fails \in BOOLEAN :
       LET outcome == store_call([kind |-> "SessionStore"], "save",
                                 IF session_id = "None" THEN 1 ELSE 2)
           written == outcome = "returns" /\ turn.redis.connected /\ ~fails
       IN turn' = [turn EXCEPT
                     !.redis = IF written
                               THEN [@ EXCEPT !.data[store_key("u1")] = payload] ELSE @,
                     !.under = IF fails \/ ~turn.redis.connected THEN @
                               ELSE [@ EXCEPT ![session_id] = payload],
                     !.call = [method |-> "save", session_id |-> session_id,
                               fails |-> fails, outcome |-> outcome, value |-> NoPayload]]
  /\ UNCHANGED <<settings, now, rate_limiter, llm_vars, rl_vars, ctx>>

\* store.load("u1") or store.load("u1", session_id): None when redis is missing,
\* fails or holds nothing under the key, else the saved state
Load ==
  /\ turn.pc = "store"
  /\ \E session_id \in {"None", "sess-a", "sess-b"}, fails \in BOOLEAN :
       LET outcome == store_call([kind |-> "SessionStore"], "load",
                                 IF session_id = "None" THEN 1 ELSE 2)
           value == IF outcome # "returns" \/ ~turn.redis.connected \/ fails THEN NoPayload
                    ELSE turn.redis.data[store_key("u1")]
       IN turn' = [turn EXCEPT
                     !.call = [method |-> "load", session_id |-> session_id,
                               fails |-> fails, outcome |-> outcome, value |-> value]]
  /\ UNCHANGED <<settings, now, rate_limiter, llm_vars, rl_vars, ctx>>

\* SessionStore.__init__: redis connected and empty, or None
InitStore ==
  /\ settings = Defaults
  /\ model = "bound"
  /\ now = 1
  /\ rate_limiter = RateLimiterInit
  /\ LLMIdle
  /\ RLIdle
  /\ CtxIdle
  /\ turn \in [pc : {"store"},
               redis : [connected : BOOLEAN, data : {[k \in {store_key("u1")} |-> NoPayload]}],
               under : {[sid \in {"None", "sess-a", "sess-b"} |-> NoPayload]},
               call : {[method |-> "None", session_id |-> "None", fails |-> FALSE,
                        outcome |-> "None", value |-> NoPayload]}]

SpecStore == InitStore /\ [][Save \/ Load]_vars

\* --------------------------------- LLMClient.count_tokens_for_messages, called alone
\* one call on the messages of a context; the awaited provider call, if made,
\* ends with a count (0 when the response carries none), a timeout or an error
CountTokens ==
  /\ turn.pc = "count"
  /\ \E counting \in [kind : {"count"}, count : {0, 1, soft_limit, soft_limit + 1}]
                       \cup [kind : {"timeout", "raises"}, count : {0}] :
       turn' = [turn EXCEPT
                  !.pc = "counted",
                  !.counting = IF settings.provider_counting THEN counting
                               ELSE [kind |-> "not_called", count |-> 0],
                  !.returned = count_tokens_given(counting, turn.system_prompt,
                                                  turn.user_prompt, turn.history)]
  /\ UNCHANGED <<settings, now, rate_limiter, llm_vars, rl_vars, ctx>>

InitTokens ==
  /\ settings \in {[Defaults EXCEPT !.provider_counting = p] : p \in BOOLEAN}
  /\ model = "bound"
  /\ now = 0
  /\ rate_limiter = RateLimiterInit
  /\ LLMIdle
  /\ RLIdle
  /\ CtxIdle
  /\ \E n \in 0..4, chars \in {0, 40}, system_prompt \in {0, SystemPromptChars},
        user_prompt \in {0, 12, 4000} :
       turn = [pc |-> "count", system_prompt |-> system_prompt, user_prompt |-> user_prompt,
               history |-> to_history(Conversation(n, chars)),
               counting |-> [kind |-> "None", count |-> 0],
               returned |-> <<0, "None">>]

SpecTokens == InitTokens /\ [][CountTokens]_vars

\* ---------------------------------------------------- CircuitBreaker, called directly
\* One call of can_execute, record_success or record_failure by any of the
\* callers: each body runs under self._lock and holds no await, so the calls take
\* effect one at a time, in any order.  The frame keeps the last call and what
\* it returned, whether it was an admission check on an open breaker made once
\* the timeout had elapsed (reset), and the course of the call that check
\* admitted (retry): "admitted" until the next record_* call, which is its
\* outcome.
CanExecute ==
  /\ turn.pc = "breaker"
  /\ LET r == can_execute(circuit_breaker, now)
         elapsed == /\ circuit_breaker.is_open
                    /\ now - circuit_breaker.last_failure_time
                         >= settings.circuit_breaker_timeout_seconds
     IN /\ circuit_breaker' = r[2]
        /\ turn' = [turn EXCEPT !.op = "can_execute", !.returned = r[1], !.reset = elapsed,
                                !.retry = IF elapsed \/ turn.retry = "admitted"
                                          THEN "admitted" ELSE "none"]
  /\ UNCHANGED <<settings, now, rate_limiter, model, calls, result, obs, rl_vars, ctx>>

RecordSuccess ==
  /\ turn.pc = "breaker"
  /\ circuit_breaker' = record_success(circuit_breaker)
  /\ turn' = [turn EXCEPT !.op = "record_success", !.returned = TRUE, !.reset = FALSE,
                          !.retry = IF turn.retry = "admitted" THEN "succeeded" ELSE "none"]
  /\ UNCHANGED <<settings, now, rate_limiter, model, calls, result, obs, rl_vars, ctx>>

\* failure_count is counted up to StreakCap
RecordFailure ==
  /\ turn.pc = "breaker"
  /\ circuit_breaker.failure_count < StreakCap
  /\ circuit_breaker' = record_failure(circuit_breaker, now)
  /\ turn' = [turn EXCEPT !.op = "record_failure", !.returned = TRUE, !.reset = FALSE,
                          !.retry = IF turn.retry = "admitted" THEN "failed" ELSE "none"]
  /\ UNCHANGED <<settings, now, rate_limiter, model, calls, result, obs, rl_vars, ctx>>

\* CircuitBreaker.__init__ over the settings
InitBreaker ==
  /\ settings \in SettingsLLM
  /\ model = "bound"
  /\ now = 0
  /\ rate_limiter = RateLimiterInit
  /\ LLMIdle
  /\ RLIdle
  /\ CtxIdle
  /\ turn = [pc |-> "breaker", op |-> "none", returned |-> TRUE, reset |-> FALSE,
             retry |-> "none"]

SpecBreaker == InitBreaker /\ [][CanExecute \/ RecordSuccess \/ RecordFailure \/ Tick]_vars

\* ------------------------- planner_node and chat_node around the main generate
\* the keyword arguments of planner_node's generate call that carry telemetry
planner_generate(prepared) ==
  [metadata |-> [node |-> "planner_llm",
                 token_count_mode |-> prepared.token_count_mode,
                 preflight_tokens |-> prepared.preflight_tokens,
                 compaction_applied |-> prepared.compaction_applied],
   preflight_tokens |-> prepared.preflight_tokens,
   compaction_applied |-> prepared.compaction_applied,
   enforce_rate_limit |-> TRUE]

\* the same of chat_node's generate call; compaction_applied is left at its default
chat_generate(prepared) ==
  [metadata |-> [node |-> "chat_llm"],
   preflight_tokens |-> prepared.preflight_tokens,
   compaction_applied |-> FALSE,
   enforce_rate_limit |-> TRUE]

\* LLMClient.generate, "Merge metadata": run_config["metadata"] of a config
\* without metadata, the caller's keys over user_id and session_id
run_config_metadata(call, user_id, session_id) ==
  call.metadata @@ [user_id |-> user_id, session_id |-> session_id]

\* the tuples _prepare_compacted_context returns, with state["summary"] as the
\* call leaves it: the skipped count, the count without compaction, and the
\* recount after one batch
PreparedContexts ==
  [summary : {0, 10}, remove_ops : {<<>>}, preflight_tokens : {0, 58},
   compaction_applied : {FALSE}, token_count_mode : {"estimated_skipped"}]
    \cup [summary : {0, 10}, remove_ops : {<<>>}, preflight_tokens : {58, 150},
          compaction_applied : {FALSE}, token_count_mode : {"exact", "estimated"}]
    \cup [summary : {0, 10}, remove_ops : {<<1>>, <<1, 2>>}, preflight_tokens : {150},
          compaction_applied : {TRUE}, token_count_mode : {"exact", "estimated"}]

PlannerGenerate ==
  /\ turn.pc = "prepared" /\ turn.node = "planner"
  /\ turn' = [turn EXCEPT !.pc = "generate",
                          !.call = planner_generate(turn.prepared),
                          !.telemetry = run_config_metadata(planner_generate(turn.prepared),
                                                            turn.user_id, "sess-1")]
  /\ UNCHANGED <<settings, now, rate_limiter, llm_vars, rl_vars, ctx>>

ChatGenerate ==
  /\ turn.pc = "prepared" /\ turn.node = "chat"
  /\ turn' = [turn EXCEPT !.pc = "generate",
                          !.call = chat_generate(turn.prepared),
                          !.telemetry = run_config_metadata(chat_generate(turn.prepared),
                                                            turn.user_id, "sess-1")]
  /\ UNCHANGED <<settings, now, rate_limiter, llm_vars, rl_vars, ctx>>

\* the thread's messages and summary as the node is entered: three stored
\* turns, and the summary the request began with (empty before a first batch)
EntryState(prepared) ==
  [messages |-> [i \in 1..3 |-> [id |-> i, type |-> IF i % 2 = 1 THEN "human" ELSE "ai"]],
   summary |-> IF prepared.compaction_applied THEN 0 ELSE prepared.summary]

\* the RemoveMessage operations and the new messages (fresh ids, here below
\* zero) of a node's "messages" update
MessagesUpdate(remove_ops, new) ==
  [i \in 1..Len(remove_ops) |-> [id |-> remove_ops[i], type |-> "remove"]]
    \o [i \in 1..Len(new) |-> [id |-> 0 - i, type |-> new[i][1]]]

\* planner_node changed to return the retractions on an error too
planner_updates_retracts_on_error(prepared, llm_result, command) ==
  LET answer == planner_answer(llm_result, command)
  IN IF llm_result.error # NoError
     THEN [routing_outcome |-> answer.routing_outcome, response |-> answer.response,
           messages |-> MessagesUpdate(prepared.remove_ops, <<>>)]
     ELSE [messages |-> MessagesUpdate(prepared.remove_ops, answer.messages),
           response |-> answer.response,
           summary |-> prepared.summary]

\* the dict planner_node returns after generate
planner_updates(prepared, llm_result, command) ==
  LET answer == planner_answer(llm_result, command)
  IN IF llm_result.error # NoError
     THEN [routing_outcome |-> answer.routing_outcome, response |-> answer.response]
     ELSE [messages |-> MessagesUpdate(prepared.remove_ops, answer.messages),
           response |-> answer.response,
           summary |-> prepared.summary]

\* the dict chat_node returns after generate
chat_updates(prepared, llm_result) ==
  LET answer == chat_answer(llm_result)
  IN IF llm_result.error # NoError
     THEN [response |-> answer.response]
     ELSE [messages |-> MessagesUpdate(prepared.remove_ops, answer.messages),
           response |-> answer.response,
           summary |-> prepared.summary]

\* the graph state after a node's update: messages through add_messages (a
\* RemoveMessage deletes the message of its id, any other is appended), summary
\* replaced when the update has one
apply_updates(state, updates) ==
  [messages |->
     IF "messages" \in DOMAIN updates
     THEN LET removed == {updates.messages[i].id :
                            i \in {j \in 1..Len(updates.messages) :
                                     updates.messages[j].type = "remove"}}
          IN SelectSeq(state.messages, LAMBDA m : m.id \notin removed)
               \o SelectSeq(updates.messages, LAMBDA m : m.type # "remove")
     ELSE state.messages,
   summary |-> IF "summary" \in DOMAIN updates THEN updates.summary ELSE state.summary]

PlannerReturns ==
  /\ turn.pc = "generate" /\ turn.node = "planner"
  /\ \E llm_result \in LLMResults :
       \E updates \in {planner_updates(turn.prepared, llm_result, turn.command)} :
         turn' = [turn EXCEPT !.pc = "returned", !.result = llm_result, !.updates = updates,
                                 !.state = apply_updates(turn.state, updates)]
  /\ UNCHANGED <<settings, now, rate_limiter, llm_vars, rl_vars, ctx>>

ChatReturns ==
  /\ turn.pc = "generate" /\ turn.node = "chat"
  /\ \E llm_result \in LLMResults :
       \E updates \in {chat_updates(turn.prepared, llm_result)} :
         turn' = [turn EXCEPT !.pc = "returned", !.result = llm_result, !.updates = updates,
                                 !.state = apply_updates(turn.state, updates)]
  /\ UNCHANGED <<settings, now, rate_limiter, llm_vars, rl_vars, ctx>>

\* AgentServicer._build_agent_state, the keys of it that are memory of the
\* thread: the messages handed in (none for a terminal request, the new
\* HumanMessage for a chat request) and "summary": ""
build_agent_state(messages) ==
  [messages |-> messages, summary |-> 0]

\* the next request of the session: the graph is started on the same thread
\* with the servicer's input, which is applied to the checkpointed state
NextRequest ==
  /\ turn.pc = "returned"
  /\ LET messages == IF turn.node = "chat" THEN <<[id |-> 0 - 3, type |-> "human"]>> ELSE <<>>
     IN turn' = [turn EXCEPT !.pc = "entered",
                             !.state = apply_updates(turn.state, build_agent_state(messages))]
  /\ UNCHANGED <<settings, now, rate_limiter, llm_vars, rl_vars, ctx>>

InitNode ==
  /\ settings = Defaults
  /\ model = "bound"
  /\ now = 0
  /\ rate_limiter = RateLimiterInit
  /\ LLMIdle
  /\ RLIdle
  /\ CtxIdle
  /\ \E node \in {"planner", "chat"}, prepared \in PreparedContexts, user_id \in {"u1", "valid-user"} :
       turn = [pc |-> "prepared", node |-> node, command |-> "make", user_id |-> user_id,
               prepared |-> prepared, call |-> [node |-> "None"],
               telemetry |-> [node |-> "None"],
               entry |-> EntryState(prepared), state |-> EntryState(prepared),
               result |-> [response |-> "", error |-> NoError],
               updates |-> [response |-> PipelineResponse]]

SpecNode ==
  InitNode /\ [][PlannerGenerate \/ ChatGenerate \/ PlannerReturns \/ ChatReturns
                   \/ NextRequest]_vars

\* ================================================================== claims
threshold == settings.circuit_breaker_threshold
Known == BagToSet(calls) \cup {result}    \* the calls in flight and the last one returned

C4_SuccessResets ==
  /\ obs.streak = 0 => (circuit_breaker.failure_count = 0 /\ ~circuit_breaker.is_open)
  /\ circuit_breaker.failure_count <= obs.streak
  /\ circuit_breaker.is_open => obs.streak >= threshold

\* C4 witness: a success has cleared a non-zero failure_count, a failure was
\* recorded after it, and the circuit is closed with that one failure counted
C4_Witness ==
  /\ obs.cleared >= 1
  /\ threshold = 2
  /\ obs.streak = 1
  /\ circuit_breaker.failure_count = 1
  /\ ~circuit_breaker.is_open

\* C5, as stated: the breaker goes from open to closed only inside an admission
\* check (can_execute) made after timeout_seconds have elapsed since the last
\* failure; no other step closes an open circuit.
C5_AsStated == obs.closed_by \in {"none", "can_execute after the timeout"}

\* C5, amended: the breaker goes from open to closed only inside an admission
\* check (can_execute) made after timeout_seconds have elapsed since the last
\* failure, or inside the record_success of an in-flight call that was admitted
\* before the circuit opened; no other step closes an open circuit and no timer
\* does.
C5_ClosedOnlyByHealOrSuccess ==
  [][(circuit_breaker.is_open /\ ~circuit_breaker'.is_open) =>
       \/ /\ \E call \in BagToSet(calls) :
                call.pc = "model" /\ CopiesIn(call, calls') < CopiesIn(call, calls)
          /\ ~WithinTimeout(circuit_breaker, now)
          /\ now' = now
          /\ obs'.closed_by = "can_execute after the timeout"
       \/ /\ \E call \in BagToSet(calls) :
                call.pc = "inflight" /\ call.admitted = "yes" /\ calls' = calls (-) One(call)
          /\ result'.outcome = "ok"
          /\ obs'.closed_by = "record_success"]_vars

\* C5 witness: an open circuit was closed by the success of an in-flight call
\* while the timeout had not elapsed
C5_Witness ==
  /\ obs.closed_by = "record_success"
  /\ result.outcome = "ok"
  /\ ~circuit_breaker.is_open

\* C6: an exception raised by the provider call is caught in generate: the call
\* returns (it does not raise) with error set and an empty response and has
\* recorded exactly one failure and no success; a provider call that returns
\* records exactly one success and no failure.
C6_ProviderErrorCaught ==
  \A call \in Known :
    /\ call.pc # "raised"
    /\ (call.pc = "done" /\ call.outcome = "exc")
         => (call.error = "provider" /\ call.response = ""
             /\ call.failures = 1 /\ call.successes = 0)
    /\ (call.pc = "done" /\ call.outcome = "ok")
         => (call.error = "none" /\ call.successes = 1 /\ call.failures = 0)
    /\ call.outcome = "none" => (call.successes = 0 /\ call.failures = 0)

\* C6 witness: a call whose provider raised has returned
C6_Witness == result.pc = "done" /\ result.outcome = "exc" /\ result.error = "provider"

\* C7: the gates are applied in the order rate limiter, model configured,
\* circuit breaker, provider: a rate-limited call has not consulted the breaker
\* nor the provider, a call with no model has not consulted the breaker, and
\* the provider is entered only by a call that passed all three gates.
C7_GateOrder ==
  \A call \in Known :
    /\ call.error = "rate limited"
         => (call.enforce_rate_limit /\ call.allowed = "no" /\ call.admitted = "unread"
             /\ ~call.invoked /\ call.successes = 0 /\ call.failures = 0)
    /\ call.error = "model not configured"
         => (model = "None" /\ call.allowed \in {"yes", "skipped"}
             /\ call.admitted = "unread" /\ ~call.invoked)
    /\ call.error = "circuit breaker open"
         => (model = "bound" /\ call.allowed \in {"yes", "skipped"}
             /\ call.admitted = "no" /\ ~call.invoked)
    /\ call.invoked
         => (call.allowed = (IF call.enforce_rate_limit THEN "yes" ELSE "skipped")
             /\ model = "bound" /\ call.admitted = "yes")
    /\ call.admitted # "unread" => call.allowed \in {"yes", "skipped"}

\* C7 witness: a call was turned away by the rate limiter while the circuit was open
C7_Witness ==
  /\ result.error = "rate limited"
  /\ circuit_breaker.is_open

rps == settings.rate_limit_rps
window_seconds == settings.rate_limit_window_seconds

\* C8: for any interleaving of allow calls on one limiter with rps >= 1, the
\* window holds its timestamps in non-decreasing order and never more than rps of
\* them, at most rps calls are admitted within any span of window_seconds (the
\* admission rps places before the latest one is at least window_seconds older),
\* and a fresh limiter admits its first rps calls.
C8_WindowBounded ==
  LET requests == rate_limiter.requests
      adm == rl_obs.admitted
  IN /\ \A i, j \in 1..Len(requests) : i < j => requests[i] <= requests[j]
     /\ Len(requests) <= rps
     /\ Len(adm) = rps + 1 => adm[rps + 1] - adm[1] >= window_seconds
     /\ ~rl_obs.first_rejected

\* C8 witness: the window is full, calls were admitted at different times and a
\* later call was rejected
C8_Witness ==
  /\ rps = 2
  /\ Len(rate_limiter.requests) = 2
  /\ rate_limiter.requests[1] < rate_limiter.requests[2]
  /\ ~rl_last.allowed
  /\ Len(rl_obs.admitted) = 3

\* C9: a rejected allow call adds no timestamp to the window and reports
\* retry_after > 0, equal to (oldest timestamp still in the window +
\* window_seconds - now); a call made once that wait has elapsed, with only
\* rejected calls in between, is admitted.
C9_RejectionAndRetry ==
  /\ ~rl_last.allowed =>
       LET live == {ts \in Elems(rate_limiter.requests) : ts > rl_last.at - window_seconds}
           oldest == CHOOSE ts \in live : \A other \in live : ts <= other
       IN /\ live # {}
          /\ rl_last.retry_after > 0
          /\ rl_last.retry_after = oldest + window_seconds - rl_last.at
  /\ ~rl_obs.grew
  /\ ~rl_obs.late_rejected

\* C9 witness: a call was rejected, further calls were rejected while waiting, and
\* the call made once the wait had elapsed was admitted
C9_Witness ==
  /\ rl_obs.waited
  /\ rl_last.allowed
  /\ Len(rate_limiter.requests) = rps

\* C10: whenever _prepare_compacted_context removes turns, the history it returns
\* still has at least keep-floor = max(conversation_min_recent_messages,
\* conversation_recent_turns_keep * 2) turns, and a history of at most keep-floor
\* turns is returned whole with nothing removed, for every history length and
\* token count.
C10_KeepFloor ==
  ctx.pc = "returned" =>
    LET keep_floor == IF settings.conversation_min_recent_messages
                           >= settings.conversation_recent_turns_keep * 2
                      THEN settings.conversation_min_recent_messages
                      ELSE settings.conversation_recent_turns_keep * 2
        given == Len(ctx.history_messages)
        removed == Len(ctx.returned.remove_ops)
    IN /\ Len(ctx.returned.history) = given - removed
       /\ removed > 0 => Len(ctx.returned.history) >= keep_floor
       /\ given <= keep_floor =>
            /\ removed = 0
            /\ \A i \in 1..given :
                 ctx.returned.history[i].content = ctx.history_messages[i].content

\* C10 witness: a long history over the soft limit lost a full batch of 30, the
\* batch cap and not the keep-floor of 2 limiting the cut
C10_Witness ==
  /\ ctx.pc = "returned"
  /\ Len(ctx.returned.remove_ops) = MAX_COMPACT_BATCH
  /\ settings.conversation_recent_turns_keep = 1
  /\ Len(ctx.returned.history) = 3

\* C10 witness (second case, same claim): a history exactly at the floor, over the
\* soft limit, came back whole
C10_AtFloor ==
  /\ ctx.pc = "returned"
  /\ Len(ctx.history_messages) = 6
  /\ settings.conversation_recent_turns_keep = 3
  /\ ctx.returned.preflight_tokens > soft_limit
  /\ settings.conversation_compaction_enabled
  /\ Len(ctx.returned.history) = 6

\* C1 (as stated): guardian_node resolves the results of its three checks by one
\* fixed priority: a tier-1 safety match gives 'unsafe' with block = true, else
\* a tier-2 match gives 'unsafe' with require_confirm = true, else a pattern match
\* with confidence >= pattern_confidence_threshold gives 'pattern', else a silent
\* SilenceDecision gives 'silent', else 'continue' with no response.
C1_FixedPriority ==
  (turn.pc # "idle" /\ turn.pc # "guardian") =>
    LET safety_block == IF settings.enable_safety THEN safety_check(turn.command)
                        ELSE NoSafetyBlock
        match == IF settings.enable_patterns THEN pattern_match(turn.command)
                 ELSE NoPatternMatch
        silent == turn.guardian_outcome # "None" /\ turn.checks.silence_decision.silent
        outcome == turn.guardian_outcome
        response == turn.guardian_response
    IN IF safety_block.tier = 1 THEN outcome = "unsafe" /\ response.block
       ELSE IF safety_block.tier = 2 THEN outcome = "unsafe" /\ response.require_confirm
       ELSE IF match # NoPatternMatch
               /\ ConfidenceAtLeast(match, settings.pattern_confidence_threshold)
         THEN outcome = "pattern" /\ response.pattern = match.name
       ELSE IF silent THEN outcome = "silent" /\ response.silent
       ELSE outcome = "continue" /\ response = PipelineResponse

\* C2: for a terminal turn whose guardian outcome is 'unsafe', 'pattern' or
\* 'silent', the planner stage does not run (no compaction call, hence no token
\* count and no summarization, and no generate call, hence no provider call), the
\* run ends, and the guardian's response is the response of the run.
C2_GuardianShortCircuits ==
  (turn.pc \in {"planner", "END", "raised"}
     /\ turn.guardian_outcome \in {"unsafe", "pattern", "silent"}) =>
    /\ turn.pc = "END"
    /\ ~turn.planner_entered
    /\ ctx.pc = "idle"
    /\ calls = EmptyBag /\ result = IdleCall
    /\ turn.routing_outcome = turn.guardian_outcome
    /\ turn.response = turn.guardian_response
    /\ turn.response # PipelineResponse

\* C2 witness: a pattern answer ended the run of a failed command with the LLM enabled
C2_Witness ==
  /\ turn.pc = "END"
  /\ turn.guardian_outcome = "pattern"
  /\ turn.exit_code # 0
  /\ settings.enable_llm
  /\ turn.response.type = "pattern"

\* C11: after any sequence of compactions starting from an empty summary, the
\* rolling summary is never longer than conversation_summary_max_chars, whether
\* the LLM summarizer or the local fallback fold produced it.
C11_SummaryWithinCap ==
  ctx.pc = "rolling" => ctx.summary <= settings.conversation_summary_max_chars

\* C11 witness: with the LLM enabled, a second compaction fell back to the local
\* fold, which was cut back to the cap
C11_Witness ==
  /\ ctx.pc = "rolling"
  /\ ctx.compactions = 2
  /\ ctx.by = "fold"
  /\ settings.enable_llm
  /\ ctx.summary = settings.conversation_summary_max_chars
  /\ ctx.summary = 30

\* C12: when the history has fewer than
\* conversation_compaction_trigger_min_messages turns, _prepare_compacted_context
\* makes no count_tokens_for_messages call and no summarization call, removes no
\* turn, and returns a local character-based estimate (the characters of the
\* history divided by 4, mode 'estimated_skipped').
C12_SmallHistorySkipsCounting ==
  (ctx.pc \in {"preflight", "summarize", "recount", "returned"}
     /\ Len(ctx.history_messages) < settings.conversation_compaction_trigger_min_messages) =>
    /\ ctx.pc = "returned"
    /\ ctx.token_counts = 0
    /\ ctx.summarizations = 0
    /\ ctx.returned.remove_ops = <<>>
    /\ ~ctx.returned.compaction_applied
    /\ Len(ctx.returned.history) = Len(ctx.history_messages)
    /\ ctx.returned.token_count_mode = "estimated_skipped"
    /\ ctx.returned.preflight_tokens * 4 <= SumContent(ctx.history_messages)
    /\ SumContent(ctx.history_messages) < (ctx.returned.preflight_tokens + 1) * 4

\* C12 witness: a history of 5 turns under a minimum of 6, long enough in
\* characters that a provider count could have been over the soft limit
C12_Witness ==
  /\ ctx.pc = "returned"
  /\ Len(ctx.history_messages) = 5
  /\ settings.conversation_compaction_trigger_min_messages = 6
  /\ settings.provider_counting
  /\ settings.conversation_compaction_enabled
  /\ ctx.returned.preflight_tokens = 50

\* C13: when _prepare_compacted_context returns from a history of n turns, it has
\* compacted exactly when counting ran, compaction is enabled, the first count was
\* above the soft limit and n > keep-floor; and then it removed the oldest
\* min(n - keep-floor, 30) turns as one contiguous prefix, returns one retract id
\* for each removed turn and no id of a retained turn, and the retained turns are
\* returned in their original order.
C13_OldestPrefixRemoved ==
  [][(ctx.pc \in {"preflight", "recount"} /\ ctx'.pc = "returned") =>
       LET hm == ctx.history_messages
           n == Len(hm)
           keep_floor == IF settings.conversation_min_recent_messages
                              >= settings.conversation_recent_turns_keep * 2
                         THEN settings.conversation_min_recent_messages
                         ELSE settings.conversation_recent_turns_keep * 2
           k == IF n - keep_floor <= 30 THEN n - keep_floor ELSE 30
           out == ctx'.returned
       IN IF out.compaction_applied
          THEN /\ settings.conversation_compaction_enabled /\ n > keep_floor
               /\ out.remove_ops = [i \in 1..k |-> hm[i].id]
               /\ \A i \in (k + 1)..n : \A j \in 1..Len(out.remove_ops) : out.remove_ops[j] # hm[i].id
               /\ ctx'.working_messages = [i \in 1..(n - k) |-> hm[k + i]]
               /\ out.history = [i \in 1..(n - k) |->
                                   [role |-> IF hm[k + i].type = "ai" THEN "assistant" ELSE "user",
                                    content |-> hm[k + i].content]]
          ELSE /\ out.remove_ops = <<>>
               /\ \/ ~settings.conversation_compaction_enabled
                  \/ n <= keep_floor
                  \/ out.preflight_tokens <= soft_limit]_vars

\* C13 witness: 10 turns over the soft limit with a keep-floor of 6: the 4 oldest
\* were retracted and turns 5..10 were returned
C13_Witness ==
  /\ ctx.pc = "returned"
  /\ Len(ctx.history_messages) = 10
  /\ settings.conversation_recent_turns_keep = 3
  /\ ctx.returned.remove_ops = <<1, 2, 3, 4>>
  /\ Len(ctx.returned.history) = 6
  /\ ctx.working_messages[1].id = 5

\* C14: a failure inside compaction does not fail the call: when the
\* summarization call returns an error or blank text, or the LLM is disabled, the
\* summary becomes the local fold of the removed turns onto the previous summary
\* (each non-blank turn one "- role: snippet" line, cut to
\* conversation_summary_max_chars), the removed turns are still retracted, and
\* _prepare_compacted_context goes on to its recount and returns to the caller,
\* whose next statement is the main generate call.
C14_CompactionDegrades ==
  /\ [](ctx.pc \in {"summarize", "recount"} => ENABLED NextCompact)
  /\ [][(ctx.pc = "summarize" /\ ctx'.pc # "summarize") =>
          /\ ctx'.pc = "recount"
          /\ ctx'.to_compact = ctx.to_compact
          /\ ctx'.summary_by # "llm" =>
               LET spoken == {i \in 1..Len(ctx.to_compact) : ctx.to_compact[i].content > 0}
                   lines == SumLines(SelectSeq(ctx.to_compact, LAMBDA m : m.content > 0))
                              + Cardinality(spoken) - 1
                   fold == IF spoken = {} THEN ctx.summary
                           ELSE IF ctx.summary > 0 THEN ctx.summary + 1 + lines ELSE lines
                   cap == settings.conversation_summary_max_chars
               IN ctx'.summary = IF fold <= cap THEN fold ELSE cap]_vars
  /\ [][(ctx.pc = "recount" /\ ctx'.pc # "recount") =>
          /\ ctx'.pc = "returned"
          /\ ctx'.returned.compaction_applied
          /\ ctx'.returned.remove_ops = [i \in 1..Len(ctx.to_compact) |-> ctx.to_compact[i].id]
          /\ Len(ctx.to_compact) > 0
          /\ ctx'.state_summary = ctx.summary]_vars

\* C14 witness: with the LLM enabled the summarizer fell back to the local fold,
\* and the call returned with the turns retracted and the fold as the summary
C14_Witness ==
  /\ ctx.pc = "returned"
  /\ settings.enable_llm
  /\ ctx.summary_by = "fold"
  /\ ctx.returned.compaction_applied
  /\ Len(ctx.returned.remove_ops) = 4
  /\ ctx.state_summary = settings.conversation_summary_max_chars

\* C15: SafetyChecker.check returns the tier, message and category of the first
\* rule that matches the command when the rules are scanned tier 1, then tier 2,
\* then tier 3, in declaration order within a tier, and None when no rule
\* matches; a command matching rules of several tiers is reported at its most
\* severe (lowest-numbered) tier.
C15_FirstMatchByTier ==
  /\ \A i, j \in 1..Len(SafetyRules) : i < j => SafetyRules[i].tier <= SafetyRules[j].tier
  /\ (turn.pc = "direct" /\ "safety" \in turn.applied) =>
       LET hits == SafetyHits[turn.command]
           block == turn.safety_block
       IN /\ (block = NoSafetyBlock) <=> (hits = {})
          /\ hits # {} =>
               /\ \E i \in hits :
                    /\ block = SafetyRules[i]
                    /\ \A j \in hits : \/ SafetyRules[j].tier > SafetyRules[i].tier
                                       \/ SafetyRules[j].tier = SafetyRules[i].tier /\ j >= i
               /\ \A j \in hits : block.tier <= SafetyRules[j].tier

\* C15 witness: a command matching a tier-1 and a tier-2 rule was checked and
\* reported at tier 1
C15_Witness ==
  /\ turn.pc = "direct"
  /\ "safety" \in turn.applied
  /\ turn.command = "rm -rf /"
  /\ {SafetyRules[i].tier : i \in SafetyHits[turn.command]} = {1, 2}
  /\ turn.safety_block.tier = 1
  /\ turn.safety_block.message = "This would delete the entire filesystem."

\* the rules of SilenceChecker.check in their fixed order, each with the
\* condition under which it applies to the checked turn
SilenceOrder ==
  <<"in_editor_mode", "self_corrected", "safe_exploration", "cooldown", "user_typing", "may_speak">>

Applies(reason) ==
  LET session == turn.session
      present == session # NoSession
      success == turn.exit_code = 0
  IN CASE reason = "in_editor_mode" -> present /\ session.in_editor_mode
       [] reason = "self_corrected" -> present /\ session.just_self_corrected
       [] reason = "safe_exploration" -> success /\ FirstWordSafe[turn.command]
       [] reason = "cooldown" ->
            /\ success
            /\ present
            /\ session.last_proactive_msg # NoTime
            /\ now - session.last_proactive_msg < settings.proactive_cooldown_seconds
       [] reason = "user_typing" -> present /\ session.is_typing
       [] reason = "may_speak" -> TRUE

\* C16: SilenceChecker.check returns the decision of the first applicable rule in
\* the order editor-mode, self-corrected, safe command with exit 0, cooldown with
\* exit 0, typing, and may-speak otherwise (the only decision that is not
\* silent); with no session, only the safe-command rule can silence.
C16_FirstApplicableRule ==
  (turn.pc = "direct" /\ "silence" \in turn.applied) =>
    LET decision == turn.silence_decision
    IN /\ \E k \in 1..Len(SilenceOrder) :
            /\ decision.reason = SilenceOrder[k]
            /\ Applies(SilenceOrder[k])
            /\ \A earlier \in 1..(k - 1) : ~Applies(SilenceOrder[earlier])
       /\ decision.silent <=> decision.reason # "may_speak"
       /\ turn.session = NoSession =>
            (decision.silent => decision.reason = "safe_exploration")

\* C16 witness: a successful command of a typing user inside the cooldown was
\* checked and silenced by the cooldown, the earlier of the two rules
C16_Witness ==
  /\ turn.pc = "direct"
  /\ "silence" \in turn.applied
  /\ turn.session # NoSession
  /\ turn.session.is_typing
  /\ turn.exit_code = 0
  /\ ~FirstWordSafe[turn.command]
  /\ turn.silence_decision = [silent |-> TRUE, reason |-> "cooldown"]

\* no session and a safe command that succeeded: silenced as safe exploration
C16_NoSessionSafe ==
  /\ turn.pc = "direct"
  /\ "silence" \in turn.applied
  /\ turn.session = NoSession
  /\ turn.silence_decision = [silent |-> TRUE, reason |-> "safe_exploration"]

\* C17: for a turn with a non-zero exit code SilenceChecker.check never returns
\* the reasons safe_exploration or cooldown, whatever the command and however
\* recent the last proactive message; such a turn is silenced only by
\* editor-mode, self-corrected or typing.
C17_ErrorsBypassSafeAndCooldown ==
  (turn.pc = "direct" /\ "silence" \in turn.applied /\ turn.exit_code # 0) =>
    /\ turn.silence_decision.reason \notin {"safe_exploration", "cooldown"}
    /\ turn.silence_decision.silent =>
         turn.silence_decision.reason \in {"in_editor_mode", "self_corrected", "user_typing"}

\* C17 witness: a failed safe command inside the cooldown was checked and the
\* checker may speak
C17_Witness ==
  /\ turn.pc = "direct"
  /\ "silence" \in turn.applied
  /\ turn.exit_code # 0
  /\ FirstWordSafe[turn.command]
  /\ turn.session # NoSession
  /\ turn.session.last_proactive_msg # NoTime
  /\ now - turn.session.last_proactive_msg < settings.proactive_cooldown_seconds
  /\ turn.silence_decision = [silent |-> FALSE, reason |-> "may_speak"]

\* C18: PatternEngine.match returns the matching pattern of highest priority, a
\* tie going to the pattern declared first, and returns None for an empty or
\* whitespace-only command and when no pattern matches.
C18_HighestPriorityMatch ==
  (turn.pc = "direct" /\ "patterns" \in turn.applied) =>
    LET declared == {i \in 1..Len(PatternDefinitions) :
                       PatternDefinitions[i].name \in PatternHits[turn.command]}
        match == turn.pattern_match
    IN /\ (match = NoPatternMatch) <=> (StrippedLen[turn.command] = 0 \/ declared = {})
       /\ match # NoPatternMatch =>
            \E i \in declared :
              /\ match.name = PatternDefinitions[i].name
              /\ match.response = PatternDefinitions[i].response
              /\ \A j \in declared :
                   \/ PatternDefinitions[j].priority < PatternDefinitions[i].priority
                   \/ PatternDefinitions[j].priority = PatternDefinitions[i].priority /\ j >= i

\* C18 witness: a command matching two patterns of priority 100 was matched and
\* the one declared first returned
C18_Witness ==
  /\ turn.pc = "direct"
  /\ "patterns" \in turn.applied
  /\ PatternHits[turn.command] = {"man_command", "help_flag"}
  /\ turn.pattern_match.name = "man_command"

\* a command matching patterns of priorities 100 and 80: the first is returned
C18_PriorityDecides ==
  /\ turn.pc = "direct"
  /\ "patterns" \in turn.applied
  /\ PatternHits[turn.command] = {"help_flag", "chmod"}
  /\ turn.pattern_match.name = "help_flag"

\* a whitespace-only command was matched: None
C18_BlankCommand ==
  /\ turn.pc = "direct"
  /\ "patterns" \in turn.applied
  /\ StrippedLen[turn.command] = 0
  /\ turn.pattern_match = NoPatternMatch

\* C19: in planner_node, when enable_llm is false or the exit code is 0, the
\* outcome is 'silent' with a silent response and the node returns before its
\* first call on the LLM client: no token count, no compaction and no generate
\* call; the node goes past that return, towards generate, only when the exit
\* code is non-zero and the LLM is enabled.
C19_PlannerSilentWithoutLLM ==
  turn.planner_entered =>
    /\ (~settings.enable_llm \/ turn.exit_code = 0) =>
         /\ turn.pc = "END"
         /\ turn.routing_outcome = "silent"
         /\ turn.response = [PipelineResponse EXCEPT !.type = "silent", !.silent = TRUE]
         /\ ctx.pc = "idle"
         /\ calls = EmptyBag /\ result = IdleCall
    /\ turn.pc # "END" => (turn.exit_code # 0 /\ settings.enable_llm)

\* C19 witness: the planner ran on a failed command with the LLM disabled and
\* ended the run silent
C19_Witness ==
  /\ turn.planner_entered
  /\ turn.guardian_outcome = "continue"
  /\ ~settings.enable_llm
  /\ turn.exit_code # 0
  /\ turn.pc = "END"
  /\ turn.response.silent

\* the planner ran on a successful command with the LLM enabled and ended the
\* run silent
C19_SuccessIsSilent ==
  /\ turn.planner_entered
  /\ turn.guardian_outcome = "continue"
  /\ settings.enable_llm
  /\ turn.exit_code = 0
  /\ turn.pc = "END"
  /\ turn.response.silent

\* C20: in chat mode, when the LLM is disabled the chat stage short-circuits to a
\* silent outcome and does not call LLMClient.generate or the provider.
C20_ChatSilentWhenDisabled ==
  (turn.pc \in {"raised", "prepare", "END", "replied"} /\ turn.chat_entered
     /\ ~settings.enable_llm) =>
    /\ turn.error = ""
    /\ turn.routing_outcome = "silent"
    /\ turn.response = [PipelineResponse EXCEPT !.type = "silent", !.silent = TRUE]
    /\ turn.pc \in {"END", "replied"}
    /\ calls = EmptyBag /\ result = IdleCall

\* C21: when the provider call fails, the response returned to the user has kind
\* 'error' and a fixed generic content that does not depend on the provider's
\* error: the answer of the node and the response the user sees are the ones any
\* other text of the provider's exception would have produced, in terminal mode
\* (planner_node, AgentResponse) and in chat mode (chat_node, ChatResponse).
C21_ErrorResponseIsGeneric ==
  (turn.pc = "answered" /\ turn.result.error # NoError) =>
    /\ turn.answer.response.type = "error"
    /\ turn.answer.response.content =
         IF turn.node = "planner" THEN <<"AI assistant unavailable">> ELSE <<"AI unavailable">>
    /\ turn.answer.response.sidebar = <<>> /\ turn.answer.response.alert = ""
    /\ turn.visible.content = turn.answer.response.content
    /\ \A text \in ProviderErrors :
         LET other == [turn.result EXCEPT !.error = [text |-> text]]
             answer == IF turn.node = "planner" THEN planner_answer(other, turn.command)
                       ELSE chat_answer(other)
         IN /\ answer = turn.answer
            /\ Visible(turn.node, answer, turn.user_id) = turn.visible

\* C21 witness: the provider raised with a text naming an API key and the
\* planner answered with the generic error
C21_Witness ==
  /\ turn.pc = "answered"
  /\ turn.node = "planner"
  /\ turn.result.error = [text |-> "401 invalid api key sk-live-123"]
  /\ turn.visible.type = "error"
  /\ turn.visible.content = <<"AI assistant unavailable">>

\* the same in chat mode
C21_ChatError ==
  /\ turn.pc = "answered"
  /\ turn.node = "chat"
  /\ turn.result.error = [text |-> "quota exceeded for project 42"]
  /\ turn.visible.response_type = "error"
  /\ turn.visible.error_message = <<"AI unavailable">>

\* C22: for every terminal request that enters the pipeline, ProcessTerminal
\* yields exactly one response: when several chain-end events of the run carry a
\* response, a response structurally identical to one already emitted is not
\* emitted again.
C22_OneResponsePerRequest ==
  (turn.pc = "done" /\ turn.rpc = "ProcessTerminal") =>
    /\ Len(turn.yielded) = 1
    /\ Cardinality({i \in 1..Len(turn.effects) : turn.effects[i] = "yield"}) = 1

\* C22 witness: the run of the graph ended with the response of the guardian in
\* the output of the node and in the final state, and it was yielded once
C22_Witness ==
  /\ turn.pc = "done" /\ turn.rpc = "ProcessTerminal"
  /\ turn.raised = ""
  /\ turn.effects = <<"load", "graph", "yield", "save">>
  /\ Len(turn.yielded) = 1
  /\ turn.yielded[1].type = "pattern"

\* C23: every Chat request yields exactly one message with is_complete = true and
\* it is the last message yielded: after a successful run, after an error
\* response of the pipeline, and when validation or any other exception ends
\* the request.
C23_OneCompletionMarkerLast ==
  (turn.pc = "done" /\ turn.rpc = "Chat") =>
    /\ ~turn.escaped
    /\ turn.yielded # <<>>
    /\ \A i \in 1..Len(turn.yielded) : turn.yielded[i].is_complete <=> i = Len(turn.yielded)

\* C23 witness: chunks were streamed, then the stream raised, and the error
\* message closes the request
C23_Witness ==
  /\ turn.pc = "done" /\ turn.rpc = "Chat"
  /\ turn.raised = "RuntimeError"
  /\ Len(turn.yielded) = 3
  /\ turn.yielded[3].is_complete /\ turn.yielded[3].response_type = "error"

\* C23 witness: the pipeline returned an error response after a chunk and the
\* handler stopped there, with events left
C23_ErrorResponseEnds ==
  /\ turn.pc = "done" /\ turn.rpc = "Chat"
  /\ turn.raised = ""
  /\ Len(turn.request.app.events) = 2
  /\ turn.request.app.events[1].response.type = "error"
  /\ turn.request.app.events[2].content = "tok"
  /\ Len(turn.yielded) = 1

\* C23 witness: a successful run ends with the empty completion marker
C23_SuccessEnds ==
  /\ turn.pc = "done" /\ turn.rpc = "Chat"
  /\ turn.raised = ""
  /\ Len(turn.yielded) = 2
  /\ turn.yielded[2] = [content |-> <<>>, is_complete |-> TRUE, response_type |-> "chat",
                        error_message |-> <<>>]

\* C24: within one request the session save completes before any response is
\* yielded to the caller: no response of ProcessTerminal or Chat is yielded
\* ahead of the session_store.save of the same request.
C24_SaveBeforeAnyYield ==
  turn.pc = "done" =>
    \A i, j \in 1..Len(turn.effects) :
      (turn.effects[i] = "yield" /\ turn.effects[j] = "save") => j < i

\* C25: SessionStore state is scoped by session id: after states were saved for
\* one user under session ids, loading a session id (redis answering) returns
\* the state saved under it, whatever was saved under the other session ids
\* since.
C25_ScopedBySessionId ==
  (/\ turn.pc = "store" /\ turn.call.method = "load" /\ ~turn.call.fails
   /\ turn.call.session_id # "None"
   /\ turn.redis.connected
   /\ turn.under[turn.call.session_id] # NoPayload)
    => /\ turn.call.outcome = "returns"
       /\ turn.call.value = turn.under[turn.call.session_id]

\* C26: for a ResetSession request with valid ids, ok = true exactly when both
\* the session-store delete and the checkpoint-thread delete succeed; if either
\* fails the status names each failed part; the checkpoint delete is attempted
\* even when the session delete failed; no exception escapes the handler.
C26_ResetReportsBothDeletes ==
  (/\ turn.pc = "done" /\ turn.rpc = "ResetSession"
   /\ ~validate_id(turn.request.user_id, "user_id", 128, TRUE, TRUE, "").raised)
    => LET session_deleted == /\ store_call(turn.store, "delete", 2) = "returns"
                              /\ turn.store.delete_returns
           checkpoint_deleted == delete_checkpoint_thread(turn.request.checkpointer)
           response == turn.yielded[1]
           names(part) == \E i \in 1..Len(response.status) : response.status[i] = part
       IN /\ ~turn.escaped
          /\ response.ok <=> (session_deleted /\ checkpoint_deleted)
          /\ ~session_deleted => names("session_store_delete_failed")
          /\ ~checkpoint_deleted => names("checkpoint_delete_failed")
          /\ \E i \in 1..Len(turn.effects) : turn.effects[i] = "checkpoint_delete"

\* C29: a terminal request whose user_id is empty, longer than 128 characters
\* or contains a character outside [a-zA-Z0-9_-] is rejected before pipeline
\* entry: ProcessTerminal yields a single error response and performs no
\* session load, no graph execution and no session save.
C29_BadUserIdRejectedBeforeEntry ==
  (/\ turn.pc = "done" /\ turn.rpc = "ProcessTerminal"
   /\ \/ turn.request.user_id = ""
      \/ IdProperties[turn.request.user_id].length > 128
      \/ IdProperties[turn.request.user_id].outside)
    => /\ Len(turn.yielded) = 1
       /\ turn.yielded[1].type = "error"
       /\ turn.effects = <<"yield">>

\* C30: ProcessTerminal never raises to its caller: an exception during session
\* load, graph execution or session save ends the request with a response of
\* type 'error' that carries the request's user_id, and for an unexpected
\* exception the content is the fixed message, without the exception text.
C30_TerminalNeverRaises ==
  (turn.pc = "done" /\ turn.rpc = "ProcessTerminal") =>
    /\ ~turn.escaped
    /\ turn.raised # "" =>
         LET last == turn.yielded[Len(turn.yielded)]
         IN /\ turn.yielded # <<>>
            /\ last.type = "error"
            /\ last.user_id = turn.request.user_id
            /\ turn.raised \notin {"ValueError", "RpcError", "CancelledError"} =>
                 last.content = <<"An unexpected error occurred while processing the command">>

\* C30 witness: the load of the store raised RuntimeError("store unavailable")
C30_Witness ==
  /\ turn.pc = "done" /\ turn.rpc = "ProcessTerminal"
  /\ turn.raised = "RuntimeError"
  /\ turn.effects = <<"load", "yield">>
  /\ turn.yielded[1].user_id = "valid-user"

\* C30 witness: a node of the graph raised
C30_GraphRaised ==
  /\ turn.pc = "done" /\ turn.rpc = "ProcessTerminal"
  /\ turn.raised = "TypeError"
  /\ turn.effects = <<"load", "graph", "yield">>
  /\ turn.yielded[1].type = "error"

\* C27: a tier-3 (log-only) safety match never blocks and never asks for
\* confirmation: guardian records a 'tier-3 safety match (log-only)' log entry
\* and resolves the outcome as it would with no safety match.
C27_Tier3LoggedNotBlocking ==
  (turn.guardian_outcome # "None" /\ turn.checks.safety_block.tier = 3) =>
    /\ turn.guardian_outcome # "unsafe"
    /\ ~turn.guardian_response.block /\ ~turn.guardian_response.require_confirm
    /\ \E i \in 1..Len(turn.logs) : turn.logs[i] = "tier-3 safety match (log-only)"

C28_ProviderCount ==
  /\ turn.pc = "counted"
  /\ turn.counting = [kind |-> "count", count |-> 0]
  /\ turn.returned = <<0, "gemini_count_tokens">>

\* C31: once the timeout has elapsed since the last failure, the next can_execute
\* resets the breaker to closed with failure_count 0 and admits the call; the
\* outcome of that retried call decides the state: if it fails the circuit
\* reopens, if it succeeds the circuit stays closed.
C31_RetriedCallDecides ==
  turn.pc = "breaker" =>
    /\ turn.reset =>
         /\ turn.returned
         /\ ~circuit_breaker.is_open /\ circuit_breaker.failure_count = 0
    /\ turn.retry = "failed" => circuit_breaker.is_open
    /\ turn.retry = "succeeded" => ~circuit_breaker.is_open

\* C37: in every reachable CircuitBreaker state with threshold >= 1, under any
\* interleaving of can_execute, record_success and record_failure, the circuit
\* is open exactly when failure_count >= threshold, and whenever it is open
\* last_failure_time is set, so the elapsed-time check of can_execute is defined.
C37_OpenIffAtThreshold ==
  turn.pc = "breaker" =>
    /\ circuit_breaker.is_open
         <=> circuit_breaker.failure_count >= settings.circuit_breaker_threshold
    /\ circuit_breaker.is_open => circuit_breaker.last_failure_time # NoTime

\* C37 witness: failures went on being recorded while the circuit was open, and
\* an admission check was then refused
C37_Witness ==
  /\ turn.pc = "breaker"
  /\ turn.op = "can_execute" /\ ~turn.returned
  /\ circuit_breaker.is_open
  /\ circuit_breaker.failure_count > settings.circuit_breaker_threshold

\* C37 witness: a success recorded between failures left the breaker closed
\* with a failure recorded since
C37_ClosedBelowThreshold ==
  /\ turn.pc = "breaker"
  /\ turn.op = "record_failure"
  /\ ~circuit_breaker.is_open
  /\ circuit_breaker.failure_count = 1
  /\ now > 0
\* C32: one call of _prepare_compacted_context makes at most two token-count
\* calls and at most one summarization call and cuts at most one batch of turns
\* (cut once, after the preflight count, and never changed afterwards), every
\* step of it moves forward through called, preflight, summarize, recount,
\* returned, so it never goes back to an earlier stage, and the recount is
\* followed by the return whatever the recount says.
C32_SinglePass ==
  /\ [](/\ ctx.token_counts <= 2
        /\ ctx.summarizations <= 1
        /\ Len(ctx.to_compact) <= MAX_COMPACT_BATCH
        /\ ctx.pc = "returned" =>
             /\ ctx.returned.remove_ops = [i \in 1..Len(ctx.to_compact) |-> ctx.to_compact[i].id]
             /\ Len(ctx.returned.history) + Len(ctx.returned.remove_ops)
                  = Len(ctx.history_messages))
  /\ [][LET stage == [called |-> 0, preflight |-> 1, summarize |-> 2, recount |-> 3,
                      returned |-> 4]
        IN /\ stage[ctx'.pc] > stage[ctx.pc]
           /\ ctx'.to_compact # ctx.to_compact => ctx.pc = "preflight" /\ ctx.to_compact = <<>>
           /\ ctx.pc = "recount" => ctx'.pc = "returned"]_vars

\* C32 witness: the call returned after one batch, one summarization and two
\* counts although the recount is still above the soft limit
C32_Witness ==
  /\ ctx.pc = "returned"
  /\ ctx.returned.compaction_applied
  /\ ctx.returned.preflight_tokens > soft_limit
  /\ ctx.token_counts = 2
  /\ ctx.summarizations = 1
  /\ Len(ctx.returned.remove_ops) = MAX_COMPACT_BATCH

C33_SelfCorrectedSilencesOnce ==
  [][turn.pc = "guardian" =>
       LET safety_block == IF settings.enable_safety THEN safety_check(turn.command)
                           ELSE NoSafetyBlock
           match == IF settings.enable_patterns THEN pattern_match(turn.command)
                    ELSE NoPatternMatch
           decided == \/ safety_block.tier \in {1, 2}
                      \/ /\ match # NoPatternMatch
                         /\ ConfidenceAtLeast(match, settings.pattern_confidence_threshold)
       IN /\ (settings.enable_silence /\ turn.session.just_self_corrected /\ ~decided) =>
               /\ turn'.routing_outcome = "silent"
               /\ ~turn'.session.just_self_corrected
          /\ turn'.routing_outcome = "silent" => ~turn'.session.just_self_corrected
          /\ turn'.routing_outcome \in {"unsafe", "pattern", "continue"} =>
               turn'.session.just_self_corrected = turn.session.just_self_corrected]_vars

\* C34: in both the planner stage and the chat stage, the telemetry metadata of
\* the main generate call has a token_count_mode entry, and it is the counting
\* mode _prepare_compacted_context returned for the request ("exact",
\* "estimated" or "estimated_skipped").
C34_ModeReachesTelemetry ==
  turn.pc = "generate" =>
    /\ "token_count_mode" \in DOMAIN turn.telemetry
    /\ turn.telemetry.token_count_mode = turn.prepared.token_count_mode
\* C36: after the main generate call, a successful planner or chat node returns
\* one update holding the RemoveMessage operations of the compaction, its new
\* turn(s) and the summary the compaction stored; after a provider error or a
\* backpressure rejection its update has no "messages" and no "summary" entry
\* and the thread's messages and summary stay as they were; so every stored
\* turn missing from the thread afterwards is one of the compacted turns and
\* the thread's summary is then the summary they were folded into.
C36_RetractionsWithSummary ==
  turn.pc = "returned" =>
    LET ok == turn.result.error = NoError
        ids(messages) == {messages[i].id : i \in 1..Len(messages)}
        removed == {turn.prepared.remove_ops[i] : i \in 1..Len(turn.prepared.remove_ops)}
        dropped == ids(turn.entry.messages) \ ids(turn.state.messages)
        new == IF turn.node = "planner" THEN <<"human", "ai">> ELSE <<"ai">>
    IN /\ ok => /\ {"messages", "summary"} \subseteq DOMAIN turn.updates
                /\ turn.updates.summary = turn.prepared.summary
                /\ [i \in 1..Len(turn.updates.messages) |-> turn.updates.messages[i].type]
                     = [i \in 1..Len(turn.prepared.remove_ops) |-> "remove"] \o new
                /\ dropped = removed
                /\ turn.state.summary = turn.prepared.summary
       /\ ~ok => /\ DOMAIN turn.updates \cap {"messages", "summary"} = {}
                 /\ turn.state = turn.entry
       /\ dropped # {} => turn.state.summary = turn.prepared.summary

\* C36 witness: the chat node returned after a compaction of two turns and a
\* successful generation: the two turns are gone from the thread, the reply is
\* added and the thread's summary is the new one
C36_Witness ==
  /\ turn.pc = "returned" /\ turn.node = "chat"
  /\ turn.result.error = NoError
  /\ turn.prepared.remove_ops = <<1, 2>>
  /\ Len(turn.state.messages) = 2
  /\ turn.state.summary = 10 /\ turn.entry.summary = 0

\* C36, the rejected case: the planner's generate call came back "circuit breaker
\* open" after a compaction, and the thread still has its three turns
C36_RejectedKeepsTurns ==
  /\ turn.pc = "returned" /\ turn.node = "planner"
  /\ turn.result.error = [text |-> "circuit breaker open"]
  /\ turn.prepared.compaction_applied
  /\ Len(turn.state.messages) = 3

\* C39: the summary the thread holds when one request of a session has
\* returned is the summary the next request of the session starts from; a new
\* request never sets it back to empty.
C39_SummaryCarriesOver ==
  [][(turn.pc = "returned" /\ turn'.pc = "entered") =>
       turn'.state.summary = turn.state.summary]_vars

\* C38: a generate call with enforce_rate_limit set that the limiter admits adds
\* exactly one timestamp, the time of the call, to the window as it passes gate
\* (a); a call the limiter rejects adds none; and no later step of any call
\* changes the window, so the timestamp stays when the call is then rejected as
\* "model not configured" or "circuit breaker open" without reaching the provider.
C38_AdmittedCallTakesOneSlot ==
  [][LET at(requests, t) == Len(SelectSeq(requests, LAMBDA ts : ts = t))
         entered == {c \in BagToSet(calls') : /\ CopiesIn(c, calls') > CopiesIn(c, calls)
                                              /\ c.pc = "model"}
         moved == {c \in BagToSet(calls) : CopiesIn(c, calls') < CopiesIn(c, calls)}
     IN /\ \A c \in entered :
             c.enforce_rate_limit =>
               /\ c.allowed = "yes"
               /\ at(rate_limiter'.requests, now) = at(rate_limiter.requests, now) + 1
               /\ Len(rate_limiter'.requests) <= Len(rate_limiter.requests) + 1
        /\ (entered = {} /\ moved = {} /\ now' = now) =>
             /\ result'.allowed = "no"
             /\ at(rate_limiter'.requests, now) = at(rate_limiter.requests, now)
        /\ moved # {} => rate_limiter' = rate_limiter]_vars

\* C38 witness: a call was rejected as rate limited on a client with no model,
\* where no call ever reaches the provider: the slot was used up by a call that
\* was itself turned away as "model not configured"
C38_Witness ==
  /\ model = "None"
  /\ result.pc = "done" /\ result.error = "rate limited"
  /\ rate_limiter.requests # <<>>

\* C38, the circuit-open case: a call the limiter admitted was rejected as
\* "circuit breaker open" and its timestamp is in the window
C38_CircuitOpenTakesSlot ==
  /\ result.pc = "done" /\ result.error = "circuit breaker open"
  /\ result.allowed = "yes" /\ ~result.invoked
  /\ now \in Elems(rate_limiter.requests)

\* C35: a generate call with enforce_rate_limit off, as _summarize_messages
\* makes it, passes gate (a) without a call of the limiter: the window is left
\* as it is and the call is never rejected as rate limited; it is then held to
\* the breaker like any other: while the circuit is open and the timeout has
\* not passed it returns "circuit breaker open" without entering the provider
\* call, its provider failure adds one to failure_count (opening the circuit at
\* the threshold) and its success sets failure_count to 0.
C35_SummaryCallSkipsLimiterOnly ==
  /\ [](~result.enforce_rate_limit =>
          /\ result.error # "rate limited"
          /\ result.allowed \in {"skipped"}
          /\ result.error = "circuit breaker open" => ~result.invoked)
  /\ [][LET entered == {c \in BagToSet(calls') : /\ CopiesIn(c, calls') > CopiesIn(c, calls)
                                                  /\ c.pc = "model"}
             moved == {c \in BagToSet(calls) : CopiesIn(c, calls') < CopiesIn(c, calls)}
         IN /\ \A c \in entered :
                 ~c.enforce_rate_limit => (c.allowed = "skipped" /\ rate_limiter' = rate_limiter)
            /\ \A c \in moved :
                 (~c.enforce_rate_limit /\ calls' = calls (-) One(c)) =>
                   /\ (/\ c.pc = "model" /\ model # "None" /\ circuit_breaker.is_open
                       /\ now - circuit_breaker.last_failure_time
                            < settings.circuit_breaker_timeout_seconds) =>
                        (result'.error = "circuit breaker open" /\ ~result'.invoked)
                   /\ (c.pc = "inflight" /\ result'.outcome = "exc") =>
                        /\ circuit_breaker'.failure_count = circuit_breaker.failure_count + 1
                        /\ circuit_breaker'.failure_count >= settings.circuit_breaker_threshold
                             => circuit_breaker'.is_open
                   /\ (c.pc = "inflight" /\ result'.outcome = "ok") =>
                        circuit_breaker'.failure_count = 0 /\ ~circuit_breaker'.is_open]_vars

\* C35 witness: with the window full, a call with enforce_rate_limit off was
\* still let through gate (a) and was then rejected by the open circuit
C35_Witness ==
  /\ ~result.enforce_rate_limit
  /\ result.pc = "done" /\ result.error = "circuit breaker open"
  /\ Len(Prune(rate_limiter.requests, now)) >= settings.rate_limit_rps

\* C35, the breaker's records: the failure of a call with enforce_rate_limit
\* off opened the circuit
C35_SummaryFailureOpens ==
  /\ ~result.enforce_rate_limit
  /\ result.failures = 1
  /\ circuit_breaker.is_open
  /\ circuit_breaker.last_failure_time = now

====
